---- MODULE Spec2Model ----
(***************************************************************************)
(* Time-capsule backup and recovery subsystem of WhisperLeaf.               *)
(*                                                                         *)
(*   backup_system.py    TimeCapsuleBackupSystem  (archives, catalog,       *)
(*                       restore, verify, delete, prune)                   *)
(*   recovery_manager.py RecoveryManager          (snapshots, plans)        *)
(*                                                                         *)
(* Every public operation is a sequence of steps run by a thread; a thread  *)
(* keeps a stack of frames (one per call in progress), so an operation that *)
(* calls another one (a recovery step calling create_backup) is a frame on  *)
(* top of its caller.  The catalog tables, the archive directory, the temp  *)
(* directory and the live files are shared by all threads.                  *)
(***************************************************************************)
EXTENDS Integers, Sequences, FiniteSets, TLC

(***************************************************************************)
(* Bounds of the model.                                                     *)
(***************************************************************************)
MaxBackups == 2        \* create_backup calls in the restore world
MaxRestores == 2       \* restore_from_backup calls
MaxWrites == 1         \* user writes to live files
MaxFaults == 1         \* I/O errors the environment injects
MaxSeconds == 1        \* seconds the clock advances in the restore world
MaxContent == 1        \* file contents are 0..MaxContent (0: an empty file)
MaxVerifies == 1       \* verify_backup calls
MaxDeletes == 1        \* delete_backup calls
MaxCatalogOps == 1     \* catalog world: verifications, prune passes, plans
MaxPlans == 1          \* create_recovery_plan calls
MaxExecutes == 2       \* execute_recovery_plan calls
ExtraBackups == 1      \* catalog world: backups beyond ListLimit

(***************************************************************************)
(* Program constants.                                                       *)
(***************************************************************************)
ListLimit == 50            \* list_backups(limit=50)
RetentionDays == 30        \* BackupMetadata.retention_days default
SecondsPerDay == 86400     \* timedelta.days

Threads == {"t1"}

(***************************************************************************)
(* Paths.  A path is the string the program handles, so the restore         *)
(* predicate's substring tests are computed on it.                          *)
(***************************************************************************)
PathList ==
  << "data/constitution.json",
     "conversations/conversation_0.json",
     "vault/document_0.txt",
     "vault/notes.txt" >>

AllPaths == {PathList[i] : i \in 1..Len(PathList)}

\* self.system_paths, in dictionary order ("./" dropped: relpath(., "."))
SystemPaths ==
  << [category |-> "constitution",  path |-> "data"],
     [category |-> "conversations", path |-> "conversations"],
     [category |-> "documents",     path |-> "vault"],
     [category |-> "configuration", path |-> "config"],
     [category |-> "curation",      path |-> "curation_data"],
     [category |-> "logs",          path |-> "logs"] >>

\* Python's `k in s` on strings
Contains(s, k) ==
  \E i \in 1..(Len(s) - Len(k) + 1) : SubSeq(s, i, i + Len(k) - 1) = k

StartsWith(s, k) == Len(k) <= Len(s) /\ SubSeq(s, 1, Len(k)) = k

\* the files os.walk yields under one root, in directory order
FilesUnder(root, files) ==
  SelectSeq(PathList, LAMBDA p : p \in files /\ StartsWith(p, root \o "/"))

\* the category whose root a path lies under ("none" when under no root)
CategoryOf(p) ==
  IF \E i \in 1..Len(SystemPaths) : StartsWith(p, SystemPaths[i].path \o "/")
  THEN SystemPaths[CHOOSE i \in 1..Len(SystemPaths) :
                     StartsWith(p, SystemPaths[i].path \o "/")].category
  ELSE "none"

RECURSIVE CollectFrom(_, _)
CollectFrom(i, files) ==
  IF i > Len(SystemPaths) THEN << >>
  ELSE FilesUnder(SystemPaths[i].path, files) \o CollectFrom(i + 1, files)

\* _collect_backup_files: the relative paths, roots in system_paths order
CollectBackupFiles(files) == CollectFrom(1, files)

Contents == 0..MaxContent

\* os.path.getsize: content c stands for a file of c bytes
FileSize(c) == c

RECURSIVE SumSizes(_, _)
SumSizes(paths, f) ==
  IF paths = << >> THEN 0
  ELSE FileSize(f[Head(paths)]) + SumSizes(Tail(paths), f)

Range(s) == {s[i] : i \in 1..Len(s)}

(***************************************************************************)
(* State.                                                                   *)
(***************************************************************************)
VARIABLES
  clock,        \* wall clock, whole seconds
  serial,       \* microsecond clock readings handed out so far (backup ids)
  fs,           \* live files: path -> content (domain: the files present)
  archives,     \* backups_path: backup id -> archive file
  temp,         \* temp_path: directory name -> extracted or staged files
  backups,      \* table backups: backup id -> row
  restores,     \* table restore_points: restore id -> row
  stack,        \* thread -> frames of the calls in progress
  ret,          \* thread -> outcome of the thread's last finished call
  returned,     \* backup ids create_backup has returned to a caller
  faults,       \* I/O errors the environment may still inject
  writes,       \* user writes so far
  calls,        \* calls started so far, per operation
  snapshots,    \* table system_snapshots: snapshot id -> row
  plans,        \* table recovery_plans: plan id -> row
  scheduler_running,   \* self.scheduler_running
  scheduler_thread,    \* self.scheduler_thread: the threads started so far,
                       \* the last of them being the one referred to (0: None)
  jobs                 \* schedule.jobs: the registered jobs, in order

\* the scheduler's state
sched == << scheduler_running, scheduler_thread, jobs >>

vars == << clock, serial, fs, archives, temp, backups, restores, stack, ret,
           returned, faults, writes, calls, snapshots, plans, sched >>

NoRet == [op |-> "none", arg |-> 0, kind |-> "none", val |-> 0]

Idle(t) == stack[t] = << >>
Top(t) == stack[t][Len(stack[t])]
At(t, o, p) == ~Idle(t) /\ Top(t).op = o /\ Top(t).pc = p

SetTop(t, f) == [stack EXCEPT ![t] = [@ EXCEPT ![Len(@)] = f]]
PushFrame(t, f) == [stack EXCEPT ![t] = Append(@, f)]
PopFrame(t) == [stack EXCEPT ![t] = SubSeq(@, 1, Len(@) - 1)]

\* the choices of the environment at an I/O step: succeed, or (while it
\* still injects errors) fail
FaultChoices == IF faults > 0 THEN {FALSE, TRUE} ELSE {FALSE}
Spend(f) == IF f THEN faults - 1 ELSE faults

Put(f, k, v) == [x \in DOMAIN f \cup {k} |-> IF x = k THEN v ELSE f[x]]
Drop(f, k) == [x \in DOMAIN f \ {k} |-> f[x]]

\* SHA-256 of a file, idealised as collision free
Digest(file) == << "sha256", file >>

(***************************************************************************)
(* list_backups / get_backup_metadata                                       *)
(***************************************************************************)
\* ORDER BY timestamp DESC: timestamps have microsecond resolution, so rows
\* of one second are ordered by their microsecond reading (the id)
Newer(a, b) ==
  \/ backups[a].timestamp > backups[b].timestamp
  \/ backups[a].timestamp = backups[b].timestamp /\ a > b

\* list_backups(): the `limit` most recent rows
ListBackups(limit) ==
  {b \in DOMAIN backups :
     Cardinality({a \in DOMAIN backups : Newer(a, b)}) < limit}

\* get_backup_metadata: searches list_backups() with its default limit
GetBackupMetadata(id) == id \in ListBackups(ListLimit)


\* a call ends: its frame is popped and the outcome is left for the caller
Finish(t, o, a, k, v) ==
  /\ stack' = PopFrame(t)
  /\ ret' = [ret EXCEPT ![t] = [op |-> o, arg |-> a, kind |-> k, val |-> v]]

Count(op) == IF op \in DOMAIN calls THEN calls[op] ELSE 0
Called(op) == Put(calls, op, Count(op) + 1)

(***************************************************************************)
(* The environment: the clock and the user's own writes to live files.      *)
(***************************************************************************)
Tick(d) ==
  /\ clock' = clock + d
  /\ UNCHANGED << sched, serial, fs, archives, temp, backups, restores, stack, ret,
                  returned, faults, writes, calls,
                  snapshots, plans >>

UserWrite(p, c) ==
  /\ writes < MaxWrites
  /\ ~(p \in DOMAIN fs /\ fs[p] = c)
  /\ fs' = Put(fs, p, c)
  /\ writes' = writes + 1
  /\ UNCHANGED << sched, clock, serial, archives, temp, backups, restores, stack,
                  ret, returned, faults, calls,
                  snapshots, plans >>

UserDelete(p) ==
  /\ writes < MaxWrites
  /\ p \in DOMAIN fs
  /\ fs' = Drop(fs, p)
  /\ writes' = writes + 1
  /\ UNCHANGED << sched, clock, serial, archives, temp, backups, restores, stack,
                  ret, returned, faults, calls,
                  snapshots, plans >>

(***************************************************************************)
(* create_backup                                                            *)
(***************************************************************************)
StagingDir(id) == << "backup", id >>

\* lines 158-162: the id from the microsecond clock, the timestamp
CreateBackupFrame(type) ==
  [op |-> "create_backup", pc |-> "stage", id |-> serial + 1, type |-> type,
   timestamp |-> clock, manifest |-> << >>, total |-> 0,
   checksum |-> << >>]

CreateBackup(t, type) ==
  /\ Idle(t)
  /\ stack' = PushFrame(t, CreateBackupFrame(type))
  /\ serial' = serial + 1
  /\ calls' = Called("create_backup")
  /\ UNCHANGED << sched, clock, fs, archives, temp, backups, restores, ret,
                  returned, faults, writes,
                  snapshots, plans >>

\* lines 225-230: the handler removes the staging directory and re-raises
CbRaise(t, err) ==
  /\ temp' = Drop(temp, StagingDir(Top(t).id))
  /\ Finish(t, "create_backup", Top(t).id, "raise", err)

\* lines 166-184: staging directory, collect, copy, sum of sizes
CbStage(t) ==
  /\ At(t, "create_backup", "stage")
  /\ \E f \in FaultChoices :
       /\ faults' = Spend(f)
       /\ IF f
          THEN CbRaise(t, "OSError")
          ELSE LET files == CollectBackupFiles(DOMAIN fs) IN
               /\ temp' = Put(temp, StagingDir(Top(t).id),
                              [p \in Range(files) |-> fs[p]])
               /\ stack' = SetTop(t, [Top(t) EXCEPT
                                        !.pc = "open",
                                        !.manifest = files,
                                        !.total = SumSizes(files, fs)])
               /\ UNCHANGED ret
  /\ UNCHANGED << sched, clock, serial, fs, archives, backups, restores, returned,
                  writes, calls,
                  snapshots, plans >>

\* line 542: tarfile.open(archive_path, "w:gz") creates the archive file
CbOpen(t) ==
  /\ At(t, "create_backup", "open")
  /\ archives' = Put(archives, Top(t).id,
                     [complete |-> FALSE, files |-> << >>])
  /\ stack' = SetTop(t, [Top(t) EXCEPT !.pc = "write"])
  /\ UNCHANGED << sched, clock, serial, fs, temp, backups, restores, ret, returned,
                  faults, writes, calls,
                  snapshots, plans >>

\* a create_backup that swallows the error of the archive write and goes on
\* to the checksum of the archive as far as it was written
CbWriteSwallowsError(t) ==
  /\ At(t, "create_backup", "write")
  /\ \E f \in FaultChoices :
       /\ faults' = Spend(f)
       /\ archives' = IF f THEN archives
                      ELSE Put(archives, Top(t).id,
                               [complete |-> TRUE,
                                files |-> temp[StagingDir(Top(t).id)]])
       /\ stack' = SetTop(t, [Top(t) EXCEPT !.pc = "checksum"])
       /\ UNCHANGED << temp, ret >>
  /\ UNCHANGED << sched, clock, serial, fs, backups, restores, returned, writes,
                  calls,
                  snapshots, plans >>

\* lines 543-545: the staging tree is written and the archive closed; an
\* error on the way leaves the archive file as far as it was written
CbWrite(t) ==
  /\ At(t, "create_backup", "write")
  /\ \E f \in FaultChoices :
       /\ faults' = Spend(f)
       /\ IF f
          THEN /\ CbRaise(t, "OSError")
               /\ UNCHANGED archives
          ELSE /\ archives' = Put(archives, Top(t).id,
                                  [complete |-> TRUE,
                                   files |-> temp[StagingDir(Top(t).id)]])
               /\ stack' = SetTop(t, [Top(t) EXCEPT !.pc = "checksum"])
               /\ UNCHANGED << temp, ret >>
  /\ UNCHANGED << sched, clock, serial, fs, backups, restores, returned, writes,
                  calls,
                  snapshots, plans >>

\* line 191: the digest of the archive file as it is on disk
CbChecksum(t) ==
  /\ At(t, "create_backup", "checksum")
  /\ \E f \in FaultChoices :
       /\ faults' = Spend(f)
       /\ IF f \/ Top(t).id \notin DOMAIN archives
          THEN CbRaise(t, "OSError")
          ELSE /\ stack' = SetTop(t, [Top(t) EXCEPT
                                        !.pc = "save",
                                        !.checksum = Digest(archives[Top(t).id])])
               /\ UNCHANGED << temp, ret >>
  /\ UNCHANGED << sched, clock, serial, fs, archives, backups, restores, returned,
                  writes, calls,
                  snapshots, plans >>

\* lines 196-211: the row create_backup builds
BackupRow(fr) ==
  [timestamp |-> fr.timestamp,
   backup_type |-> fr.type,
   files_included |-> fr.manifest,
   total_size_bytes |-> fr.total,
   checksum |-> fr.checksum,
   verification_status |-> "verified",
   retention_days |-> RetentionDays]

\* line 214: _save_backup_metadata inserts the row
CbSave(t) ==
  /\ At(t, "create_backup", "save")
  /\ \E f \in FaultChoices :
       /\ faults' = Spend(f)
       /\ IF f
          THEN /\ CbRaise(t, "sqlite3.Error")
               /\ UNCHANGED backups
          ELSE /\ backups' = Put(backups, Top(t).id, BackupRow(Top(t)))
               /\ stack' = SetTop(t, [Top(t) EXCEPT !.pc = "cleanup"])
               /\ UNCHANGED << temp, ret >>
  /\ UNCHANGED << sched, clock, serial, fs, archives, restores, returned, writes,
                  calls,
                  snapshots, plans >>

\* lines 217-223: staging removed, the compression ratio logged (a division
\* by total_size), the id returned
CbCleanup(t) ==
  /\ At(t, "create_backup", "cleanup")
  /\ \E f \in FaultChoices :
       /\ faults' = Spend(f)
       /\ temp' = Drop(temp, StagingDir(Top(t).id))
       /\ IF f
          THEN /\ Finish(t, "create_backup", Top(t).id, "raise", "OSError")
               /\ UNCHANGED returned
          ELSE IF Top(t).total = 0
          THEN /\ Finish(t, "create_backup", Top(t).id, "raise",
                         "ZeroDivisionError")
               /\ UNCHANGED returned
          ELSE /\ Finish(t, "create_backup", Top(t).id, "ok", Top(t).id)
               /\ returned' = returned \cup {Top(t).id}
  /\ UNCHANGED << sched, clock, serial, fs, archives, backups, restores, writes,
                  calls,
                  snapshots, plans >>

(***************************************************************************)
(* restore_from_backup                                                      *)
(***************************************************************************)
ScopeKeys == {"constitution", "conversations", "documents", "configuration"}

\* lines 238-244: the scope used when none is given
FullScope == [k \in ScopeKeys |-> TRUE]

\* restore_scope.get(key, True)
ScopeGet(scope, key) == IF key \in DOMAIN scope THEN scope[key] ELSE TRUE

\* lines 283-291: the if/elif chain deciding whether an entry is restored
ShouldRestore(file_path, scope) ==
  IF Contains(file_path, "constitution") /\ ScopeGet(scope, "constitution")
  THEN TRUE
  ELSE IF Contains(file_path, "conversation") /\ ScopeGet(scope, "conversations")
  THEN TRUE
  ELSE IF Contains(file_path, "document") /\ ScopeGet(scope, "documents")
  THEN TRUE
  ELSE IF Contains(file_path, "config") /\ ScopeGet(scope, "configuration")
  THEN TRUE
  ELSE FALSE

\* line 305: (restored_files / total_files) * 100, kept as its integer part
\* (the integer part is 100 exactly when the quotient is 1)
Progress(restored, total) == (restored * 100) \div total

ExtractDir(rid) == << "restore", rid >>

\* line 234: the restore id is the whole-second clock reading
RestoreFrame(backup_id, scope) ==
  [op |-> "restore_from_backup", pc |-> "begin", id |-> clock,
   backup_id |-> backup_id, scope |-> scope, manifest |-> << >>,
   restored |-> 0,
   rp |-> [status |-> "unbound", progress_percent |-> 0,
           error_message |-> ""]]

RestoreFromBackup(t, backup_id, scope) ==
  /\ Idle(t)
  /\ stack' = PushFrame(t, RestoreFrame(backup_id, scope))
  /\ calls' = Called("restore_from_backup")
  /\ UNCHANGED << sched, clock, serial, fs, archives, temp, backups, restores, ret,
                  returned, faults, writes,
                  snapshots, plans >>

\* lines 255-265: the row of a new restore point
RestoreRow(fr) ==
  [backup_id |-> fr.backup_id,
   restore_constitution |-> ScopeGet(fr.scope, "constitution"),
   restore_conversations |-> ScopeGet(fr.scope, "conversations"),
   restore_documents |-> ScopeGet(fr.scope, "documents"),
   restore_configuration |-> ScopeGet(fr.scope, "configuration"),
   status |-> "in_progress",
   progress_percent |-> 0,
   error_message |-> ""]

\* lines 616-629: UPDATE restore_points SET status, progress_percent,
\* error_message WHERE restore_id = ?  (no row with the id: nothing happens)
UpdateRestorePoint(rid, rp) ==
  IF rid \in DOMAIN restores
  THEN [restores EXCEPT ![rid] =
          [@ EXCEPT !.status = rp.status,
                    !.progress_percent = rp.progress_percent,
                    !.error_message = rp.error_message]]
  ELSE restores

\* a handler that re-raises without recording the failure in the row
RsFailUnrecorded(t, err) ==
  /\ restores' = restores
  /\ Finish(t, "restore_from_backup", Top(t).backup_id, "raise", err)

\* lines 322-330: the handler marks the restore point failed, updates the
\* row with the restore id, and re-raises
RsFail(t, err) ==
  /\ restores' = UpdateRestorePoint(Top(t).id,
                   [Top(t).rp EXCEPT !.status = "failed",
                                     !.error_message = err])
  /\ Finish(t, "restore_from_backup", Top(t).backup_id, "raise", err)

\* lines 248-267: the backup is looked up, the restore point built and
\* inserted.  When the lookup fails the handler runs before restore_point
\* is assigned, and its own failure (UnboundLocalError) is what is raised.
RsBegin(t) ==
  /\ At(t, "restore_from_backup", "begin")
  /\ IF ~GetBackupMetadata(Top(t).backup_id)
     THEN /\ Finish(t, "restore_from_backup", Top(t).backup_id, "raise",
                    "UnboundLocalError")
          /\ UNCHANGED restores
     ELSE IF Top(t).id \in DOMAIN restores
     THEN LET fr == [Top(t) EXCEPT !.rp = [status |-> "in_progress",
                                          progress_percent |-> 0,
                                          error_message |-> ""]] IN
          /\ restores' = UpdateRestorePoint(fr.id,
                           [fr.rp EXCEPT !.status = "failed",
                                         !.error_message = "IntegrityError"])
          /\ Finish(t, "restore_from_backup", fr.backup_id, "raise",
                    "IntegrityError")
     ELSE /\ restores' = Put(restores, Top(t).id, RestoreRow(Top(t)))
          /\ stack' = SetTop(t, [Top(t) EXCEPT
                 !.pc = "extract",
                 !.manifest = backups[Top(t).backup_id].files_included,
                 !.rp = [status |-> "in_progress", progress_percent |-> 0,
                         error_message |-> ""]])
          /\ UNCHANGED ret
  /\ UNCHANGED << sched, clock, serial, fs, archives, temp, backups, returned,
                  faults, writes, calls,
                  snapshots, plans >>

\* lines 270-273, 547-552: the extraction directory is made, then the
\* archive is opened and unpacked into it
RsExtract(t) ==
  /\ At(t, "restore_from_backup", "extract")
  /\ \E f \in FaultChoices :
       /\ faults' = Spend(f)
       /\ IF \/ f
             \/ Top(t).backup_id \notin DOMAIN archives
             \/ ~archives[Top(t).backup_id].complete
          THEN /\ temp' = Put(temp, ExtractDir(Top(t).id), << >>)
               /\ RsFail(t, "OSError")
          ELSE /\ temp' = Put(temp, ExtractDir(Top(t).id),
                              archives[Top(t).backup_id].files)
               /\ stack' = SetTop(t, [Top(t) EXCEPT !.pc = "files"])
               /\ UNCHANGED << restores, ret >>
  /\ UNCHANGED << sched, clock, serial, fs, archives, backups, returned, writes,
                  calls,
                  snapshots, plans >>

\* lines 279-309: one manifest entry: copied back when in scope and
\* extracted, then the progress is written to the row
RsFile(t) ==
  /\ At(t, "restore_from_backup", "files")
  /\ Top(t).restored < Len(Top(t).manifest)
  /\ LET fr == Top(t)
         file_path == fr.manifest[fr.restored + 1]
         extracted == temp[ExtractDir(fr.id)]
         copy == ShouldRestore(file_path, fr.scope)
                   /\ file_path \in DOMAIN extracted
         rp == [fr.rp EXCEPT !.progress_percent =
                  Progress(fr.restored + 1, Len(fr.manifest))]
     IN \E f \in (IF copy THEN FaultChoices ELSE {FALSE}) :
          /\ faults' = Spend(f)
          /\ IF f
             THEN /\ RsFail(t, "OSError")
                  /\ UNCHANGED fs
             ELSE /\ fs' = IF copy THEN Put(fs, file_path, extracted[file_path])
                                   ELSE fs
                  /\ restores' = UpdateRestorePoint(fr.id, rp)
                  /\ stack' = SetTop(t, [fr EXCEPT !.restored = @ + 1,
                                                   !.rp = rp])
                  /\ UNCHANGED ret
  /\ UNCHANGED << sched, clock, serial, archives, temp, backups, returned, writes,
                  calls,
                  snapshots, plans >>

\* lines 311-314: the restore point is marked completed
RsComplete(t) ==
  /\ At(t, "restore_from_backup", "files")
  /\ Top(t).restored = Len(Top(t).manifest)
  /\ LET rp == [Top(t).rp EXCEPT !.status = "completed",
                                 !.progress_percent = 100]
     IN /\ restores' = UpdateRestorePoint(Top(t).id, rp)
        /\ stack' = SetTop(t, [Top(t) EXCEPT !.pc = "cleanup", !.rp = rp])
  /\ UNCHANGED << sched, clock, serial, fs, archives, temp, backups, ret, returned,
                  faults, writes, calls,
                  snapshots, plans >>

\* lines 316-320: the extraction directory is removed, the id returned
RsCleanup(t) ==
  /\ At(t, "restore_from_backup", "cleanup")
  /\ \E f \in FaultChoices :
       /\ faults' = Spend(f)
       /\ IF f
          THEN /\ RsFail(t, "OSError")
               /\ UNCHANGED temp
          ELSE /\ temp' = Drop(temp, ExtractDir(Top(t).id))
               /\ Finish(t, "restore_from_backup", Top(t).backup_id, "ok",
                         Top(t).id)
               /\ UNCHANGED restores
  /\ UNCHANGED << sched, clock, serial, fs, archives, backups, returned, writes,
                  calls,
                  snapshots, plans >>

(***************************************************************************)
(* verify_backup                                                            *)
(***************************************************************************)
VerifyDir(id) == << "verify", id >>

VerifyBackup(t, id) ==
  /\ Idle(t)
  /\ stack' = PushFrame(t, [op |-> "verify_backup", pc |-> "check", id |-> id])
  /\ calls' = Called("verify_backup")
  /\ UNCHANGED << sched, clock, serial, fs, archives, temp, backups, restores, ret,
                  returned, faults, writes,
                  snapshots, plans >>

\* lines 403-415: the row is looked up, the archive must exist and its
\* digest must equal the recorded checksum
VbCheck(t) ==
  /\ At(t, "verify_backup", "check")
  /\ LET id == Top(t).id IN
     IF \/ ~GetBackupMetadata(id)
        \/ id \notin DOMAIN archives
        \/ Digest(archives[id]) # backups[id].checksum
     THEN Finish(t, "verify_backup", id, "ok", FALSE)
     ELSE /\ stack' = SetTop(t, [Top(t) EXCEPT !.pc = "extract"])
          /\ UNCHANGED ret
  /\ UNCHANGED << sched, clock, serial, fs, archives, temp, backups, restores,
                  returned, faults, writes, calls,
                  snapshots, plans >>

\* a verify_backup that writes the outcome of a failed test extraction to the
\* backup's row
VbExtractRecordsFailure(t) ==
  /\ At(t, "verify_backup", "extract")
  /\ LET id == Top(t).id IN
     \E f \in FaultChoices :
       /\ faults' = Spend(f)
       /\ IF f \/ id \notin DOMAIN archives \/ ~archives[id].complete
          THEN /\ temp' = Put(temp, VerifyDir(id), << >>)
               /\ backups' = [backups EXCEPT
                                ![id].verification_status = "failed"]
               /\ Finish(t, "verify_backup", id, "ok", FALSE)
          ELSE /\ temp' = Drop(temp, VerifyDir(id))
               /\ UNCHANGED backups
               /\ Finish(t, "verify_backup", id, "ok", TRUE)
  /\ UNCHANGED << sched, clock, serial, fs, archives, restores, returned,
                  writes, calls,
                  snapshots, plans >>

\* lines 417-425: the test extraction into a scratch directory, which is
\* removed when the extraction succeeded
VbExtract(t) ==
  /\ At(t, "verify_backup", "extract")
  /\ LET id == Top(t).id IN
     \E f \in FaultChoices :
       /\ faults' = Spend(f)
       /\ IF f \/ id \notin DOMAIN archives \/ ~archives[id].complete
          THEN /\ temp' = Put(temp, VerifyDir(id), << >>)
               /\ Finish(t, "verify_backup", id, "ok", FALSE)
          ELSE /\ temp' = Drop(temp, VerifyDir(id))
               /\ Finish(t, "verify_backup", id, "ok", TRUE)
  /\ UNCHANGED << sched, clock, serial, fs, archives, backups, restores, returned,
                  writes, calls,
                  snapshots, plans >>

(***************************************************************************)
(* delete_backup                                                            *)
(***************************************************************************)
DeleteFrame(id) == [op |-> "delete_backup", pc |-> "unlink", id |-> id]

DeleteBackup(t, id) ==
  /\ Idle(t)
  /\ stack' = PushFrame(t, DeleteFrame(id))
  /\ calls' = Called("delete_backup")
  /\ UNCHANGED << sched, clock, serial, fs, archives, temp, backups, restores, ret,
                  returned, faults, writes,
                  snapshots, plans >>

\* lines 383-385: the archive file is unlinked when it exists
DbUnlink(t) ==
  /\ At(t, "delete_backup", "unlink")
  /\ \E f \in (IF Top(t).id \in DOMAIN archives THEN FaultChoices ELSE {FALSE}) :
       /\ faults' = Spend(f)
       /\ IF f
          THEN /\ Finish(t, "delete_backup", Top(t).id, "ok", FALSE)
               /\ UNCHANGED archives
          ELSE /\ archives' = Drop(archives, Top(t).id)
               /\ stack' = SetTop(t, [Top(t) EXCEPT !.pc = "rows"])
               /\ UNCHANGED ret
  /\ UNCHANGED << sched, clock, serial, fs, temp, backups, restores, returned,
                  writes, calls,
                  snapshots, plans >>

\* lines 388-394: one transaction deletes the backup row and the restore
\* rows of the backup; then True is returned
DbRows(t) ==
  /\ At(t, "delete_backup", "rows")
  /\ \E f \in FaultChoices :
       /\ faults' = Spend(f)
       /\ IF f
          THEN /\ Finish(t, "delete_backup", Top(t).id, "ok", FALSE)
               /\ UNCHANGED << backups, restores >>
          ELSE /\ backups' = Drop(backups, Top(t).id)
               /\ restores' = [r \in {x \in DOMAIN restores :
                                        restores[x].backup_id # Top(t).id}
                                 |-> restores[r]]
               /\ Finish(t, "delete_backup", Top(t).id, "ok", TRUE)
  /\ UNCHANGED << sched, clock, serial, fs, archives, temp, returned, writes,
                  calls,
                  snapshots, plans >>

(***************************************************************************)
(* _cleanup_old_backups (the prune pass)                                    *)
(***************************************************************************)
RECURSIVE SortedDesc(_)
SortedDesc(ids) ==
  IF ids = {} THEN << >>
  ELSE LET first == CHOOSE a \in ids : \A b \in ids \ {a} : Newer(a, b)
       IN << first >> \o SortedDesc(ids \ {first})

\* line 652: (now - backup.timestamp).days
AgeDays(now, timestamp) == (now - timestamp) \div SecondsPerDay

\* line 653
Expired(now, row) == AgeDays(now, row.timestamp) > row.retention_days

\* lines 648-649: the rows list_backups() returns, and the time of the pass
CleanupOldBackups(t) ==
  /\ Idle(t)
  /\ stack' = PushFrame(t, [op |-> "cleanup_old_backups", pc |-> "loop",
                            now |-> clock,
                            todo |-> SortedDesc(ListBackups(ListLimit)),
                            rows |-> backups])
  /\ calls' = Called("cleanup_old_backups")
  /\ UNCHANGED << sched, clock, serial, fs, archives, temp, backups, restores, ret,
                  returned, faults, writes,
                  snapshots, plans >>

\* lines 651-655: the next listed backup; delete_backup is called for it
\* when it has expired
CuNext(t) ==
  /\ At(t, "cleanup_old_backups", "loop")
  /\ Top(t).todo # << >>
  /\ LET fr == Top(t)
         b == Head(fr.todo)
         rest == [fr EXCEPT !.todo = Tail(@)]
     IN stack' = IF Expired(fr.now, fr.rows[b])
                 THEN [stack EXCEPT ![t] =
                         Append([@ EXCEPT ![Len(@)] = rest], DeleteFrame(b))]
                 ELSE SetTop(t, rest)
  /\ UNCHANGED << sched, clock, serial, fs, archives, temp, backups, restores, ret,
                  returned, faults, writes, calls,
                  snapshots, plans >>

CuDone(t) ==
  /\ At(t, "cleanup_old_backups", "loop")
  /\ Top(t).todo = << >>
  /\ Finish(t, "cleanup_old_backups", 0, "ok", 0)
  /\ UNCHANGED << sched, clock, serial, fs, archives, temp, backups, restores,
                  returned, faults, writes, calls,
                  snapshots, plans >>

(***************************************************************************)
(* RecoveryManager: system snapshots                                        *)
(***************************************************************************)
ConstitutionFile == "data/constitution.json"

\* _capture_configuration_state: the configuration files read ("./" dropped)
ConfigFiles == {"config/config.yaml", ".env", "time_capsule/backup_config.json"}

\* json.load of a file: the document the text stands for (an empty file is
\* no JSON document); json.dump is its inverse, and the text of the empty
\* object is a content of its own
EmptyDict == {}
EmptyObjectText == MaxContent + 1
JsonLoad(c) == IF c = EmptyObjectText THEN EmptyDict ELSE {c}
JsonDump(d) == IF d = EmptyDict THEN EmptyObjectText
               ELSE CHOOSE c \in Contents : d = {c}

\* lines 536-546: the constitution document, {} when the file is missing or
\* cannot be parsed
CaptureConstitutionState ==
  IF ConstitutionFile \in DOMAIN fs /\ fs[ConstitutionFile] # 0
  THEN JsonLoad(fs[ConstitutionFile])
  ELSE EmptyDict

\* line 563: config_file.endswith('.json')
IsJson(f) == Len(f) >= 5 /\ SubSeq(f, Len(f) - 4, Len(f)) = ".json"

\* lines 548-571: the configuration files that exist, by name: the text of
\* a file, or its document for a .json file.  A .json file that cannot be
\* parsed ends the loop; it is the last file of the list, so it is the one
\* left out.
CaptureConfigurationState ==
  [f \in {g \in ConfigFiles \cap DOMAIN fs : ~(IsJson(g) /\ fs[g] = 0)} |->
     IF IsJson(f) THEN JsonLoad(fs[f]) ELSE fs[f]]

\* lines 127-171: the snapshot id is the whole-second clock reading; the row
\* is inserted (a row with the id already there: IntegrityError)
SnapshotId == clock
SnapshotFails(f) == f \/ SnapshotId \in DOMAIN snapshots
SnapshotTable ==
  Put(snapshots, SnapshotId,
      [timestamp |-> clock,
       constitution_snapshot |-> CaptureConstitutionState,
       configuration_snapshot |-> CaptureConfigurationState])

\* lines 163-168: the table after a failed create_system_snapshot: as it
\* was, or with the row when the error came after the insert (writing the
\* snapshot's JSON file)
FailedSnapshotTables ==
  IF SnapshotId \in DOMAIN snapshots THEN {snapshots}
  ELSE {snapshots, SnapshotTable}

CreateSystemSnapshot(t) ==
  /\ Idle(t)
  /\ \E f \in FaultChoices :
       /\ faults' = Spend(f)
       /\ IF SnapshotFails(f)
          THEN /\ ret' = [ret EXCEPT ![t] =
                            [op |-> "create_system_snapshot", arg |-> SnapshotId,
                             kind |-> "raise", val |-> "Error"]]
               /\ snapshots' \in FailedSnapshotTables
          ELSE /\ ret' = [ret EXCEPT ![t] =
                            [op |-> "create_system_snapshot", arg |-> SnapshotId,
                             kind |-> "ok", val |-> SnapshotId]]
               /\ snapshots' = SnapshotTable
  /\ calls' = Called("create_system_snapshot")
  /\ UNCHANGED << sched, clock, serial, fs, archives, temp, backups, restores,
                  stack, returned, writes, plans >>

(***************************************************************************)
(* RecoveryManager: recovery plans                                          *)
(***************************************************************************)
\* lines 381-387: the listed backups at or before the target that are verified
SuitableBackups(target) ==
  {b \in ListBackups(ListLimit) :
     /\ backups[b].timestamp <= target
     /\ backups[b].verification_status = "verified"}

\* line 393: max(..., key=timestamp) over the list in its order, most recent
\* first: of equal timestamps the first listed one is returned
FindBestBackupForTimestamp(target) ==
  CHOOSE b \in SuitableBackups(target) :
    \A a \in SuitableBackups(target) \ {b} : Newer(b, a)

\* timedelta.days
Days(seconds) == seconds \div SecondsPerDay

\* lines 395-421
RiskScore(now, target, components) ==
  (IF Days(now - target) > 30 THEN 2
   ELSE IF Days(now - target) > 7 THEN 1 ELSE 0)
  + (IF "constitution" \in components THEN 2 ELSE 0)
  + (IF "configuration" \in components THEN 1 ELSE 0)

AssessRecoveryRisk(now, target, components) ==
  IF RiskScore(now, target, components) >= 4 THEN "high"
  ELSE IF RiskScore(now, target, components) >= 2 THEN "medium"
  ELSE "low"

\* lines 489-495
AssessDataLossRisk(now, target) == Days(now - target) > 1

\* lines 423-471: the five steps of every plan
CreateRecoverySteps(backup_id, components) ==
  << [type |-> "backup", action |-> "create_backup"],
     [type |-> "service", action |-> "stop_services"],
     [type |-> "restore", action |-> "restore_backup",
      backup_id |-> backup_id,
      restore_scope |-> [c \in components |-> TRUE]],
     [type |-> "verification", action |-> "verify_system"],
     [type |-> "service", action |-> "start_services"] >>

\* lines 473-487
StepDuration(type) ==
  CASE type = "backup" -> 10
    [] type = "service" -> 2
    [] type = "restore" -> 15
    [] type = "verification" -> 5
    [] OTHER -> 5

RECURSIVE EstimateRecoveryDuration(_)
EstimateRecoveryDuration(steps) ==
  IF steps = << >> THEN 0
  ELSE StepDuration(Head(steps).type) + EstimateRecoveryDuration(Tail(steps))

\* lines 207-216
PlanRow(target, components) ==
  LET steps == CreateRecoverySteps(FindBestBackupForTimestamp(target), components)
  IN [target_timestamp |-> target,
      steps |-> steps,
      estimated_duration_minutes |-> EstimateRecoveryDuration(steps),
      risk_level |-> AssessRecoveryRisk(clock, target, components),
      affected_components |-> components,
      data_loss_risk |-> AssessDataLossRisk(clock, target),
      status |-> "planned",
      current_step |-> 0,
      progress_percent |-> 0,
      error_message |-> ""]

\* line 180: the plan id is the whole-second clock reading
PlanId == clock

\* lines 177-231: no suitable backup: ValueError; a plan row with the id
\* already there: IntegrityError; else the plan is inserted
CreateRecoveryPlan(t, target, components) ==
  /\ Idle(t)
  /\ IF SuitableBackups(target) = {}
     THEN /\ ret' = [ret EXCEPT ![t] =
                       [op |-> "create_recovery_plan", arg |-> target,
                        kind |-> "raise", val |-> "ValueError"]]
          /\ UNCHANGED plans
     ELSE IF PlanId \in DOMAIN plans
     THEN /\ ret' = [ret EXCEPT ![t] =
                       [op |-> "create_recovery_plan", arg |-> target,
                        kind |-> "raise", val |-> "IntegrityError"]]
          /\ UNCHANGED plans
     ELSE /\ ret' = [ret EXCEPT ![t] =
                       [op |-> "create_recovery_plan", arg |-> target,
                        kind |-> "ok", val |-> PlanId]]
          /\ plans' = Put(plans, PlanId, PlanRow(target, components))
  /\ calls' = Called("create_recovery_plan")
  /\ UNCHANGED << sched, clock, serial, fs, archives, temp, backups, restores,
                  stack, returned, faults, writes, snapshots >>

(***************************************************************************)
(* RecoveryManager: execute_recovery_plan                                   *)
(***************************************************************************)
\* lines 735-749: UPDATE recovery_plans SET status, current_step,
\* progress_percent, error_message WHERE plan_id = ?
UpdateRecoveryPlan(id, plan) ==
  IF id \in DOMAIN plans
  THEN [plans EXCEPT ![id] =
          [@ EXCEPT !.status = plan.status,
                    !.current_step = plan.current_step,
                    !.progress_percent = plan.progress_percent,
                    !.error_message = plan.error_message]]
  ELSE plans

ExecuteRecoveryPlan(t, plan_id) ==
  /\ Idle(t)
  /\ stack' = PushFrame(t, [op |-> "execute_recovery_plan", pc |-> "load",
                            id |-> plan_id, plan |-> << >>, pre |-> {}])
  /\ calls' = Called("execute_recovery_plan")
  /\ UNCHANGED << sched, clock, serial, fs, archives, temp, backups, restores, ret,
                  returned, faults, writes, snapshots, plans >>

\* lines 281-290: the handler marks the plan failed, updates its row and
\* returns False
ExFail(t, plan, err) ==
  /\ plans' = UpdateRecoveryPlan(Top(t).id,
                [plan EXCEPT !.status = "failed", !.error_message = err])
  /\ Finish(t, "execute_recovery_plan", Top(t).id, "ok", FALSE)

\* lines 239-247: the plan is loaded and marked executing.  For an unknown
\* id the handler runs with plan = None and its own failure is raised.
ExLoad(t) ==
  /\ At(t, "execute_recovery_plan", "load")
  /\ IF Top(t).id \notin DOMAIN plans
     THEN /\ Finish(t, "execute_recovery_plan", Top(t).id, "raise",
                    "AttributeError")
          /\ UNCHANGED plans
     ELSE LET plan == [plans[Top(t).id] EXCEPT !.status = "executing",
                                              !.current_step = 0,
                                              !.progress_percent = 0]
          IN /\ plans' = UpdateRecoveryPlan(Top(t).id, plan)
             /\ stack' = SetTop(t, [Top(t) EXCEPT !.pc = "pre_snapshot",
                                                  !.plan = plan])
             /\ UNCHANGED ret
  /\ UNCHANGED << sched, clock, serial, fs, archives, temp, backups, restores,
                  returned, faults, writes, calls, snapshots >>

\* an execution that goes on to its steps when the snapshot could not be taken
ExPreSnapshotOptional(t) ==
  /\ At(t, "execute_recovery_plan", "pre_snapshot")
  /\ \E f \in FaultChoices :
       /\ faults' = Spend(f)
       /\ snapshots' = IF SnapshotFails(f) THEN snapshots ELSE SnapshotTable
       /\ stack' = SetTop(t, [Top(t) EXCEPT
                      !.pc = "step",
                      !.pre = IF SnapshotFails(f) THEN {} ELSE {SnapshotId}])
       /\ UNCHANGED << plans, ret >>
  /\ UNCHANGED << sched, clock, serial, fs, archives, temp, backups, restores,
                  returned, writes, calls >>

\* lines 250-252: the pre-recovery snapshot; pre is the local
\* pre_recovery_snapshot ({} while unassigned)
ExPreSnapshot(t) ==
  /\ At(t, "execute_recovery_plan", "pre_snapshot")
  /\ \E f \in FaultChoices :
       /\ faults' = Spend(f)
       /\ IF SnapshotFails(f)
          THEN /\ ExFail(t, Top(t).plan, "Error")
               /\ snapshots' \in FailedSnapshotTables
          ELSE /\ snapshots' = SnapshotTable
               /\ stack' = SetTop(t, [Top(t) EXCEPT !.pc = "step",
                                                    !.pre = {SnapshotId}])
               /\ UNCHANGED << plans, ret >>
  /\ UNCHANGED << sched, clock, serial, fs, archives, temp, backups, restores,
                  returned, writes, calls >>

\* line 260: ((i + 1) / total_steps) * 100, kept as its integer part
StepProgress(i, total) == ((i + 1) * 100) \div total

\* lines 256-264: the next step: current_step and progress are written to the
\* row, then the step's action runs; create_backup and restore_from_backup
\* are calls of the backup system, the other actions are simulated
ExStep(t) ==
  /\ At(t, "execute_recovery_plan", "step")
  /\ Top(t).plan.current_step < Len(Top(t).plan.steps)
  /\ LET fr == Top(t)
         i == fr.plan.current_step
         step == fr.plan.steps[i + 1]
         plan == [fr.plan EXCEPT
                    !.current_step = i + 1,
                    !.progress_percent = StepProgress(i, Len(fr.plan.steps))]
         waiting == [fr EXCEPT !.plan = plan, !.pc = "wait"]
         calling(callee) ==
           [stack EXCEPT ![t] = Append([@ EXCEPT ![Len(@)] = waiting], callee)]
     IN /\ plans' = UpdateRecoveryPlan(fr.id, plan)
        /\ IF step.action = "create_backup"
           THEN /\ stack' = calling(CreateBackupFrame("full"))
                /\ serial' = serial + 1
           ELSE IF step.action = "restore_backup"
           THEN /\ stack' = calling(RestoreFrame(step.backup_id,
                                                 step.restore_scope))
                /\ UNCHANGED serial
           ELSE /\ stack' = SetTop(t, [fr EXCEPT !.plan = plan])
                /\ UNCHANGED serial
  /\ UNCHANGED << sched, clock, fs, archives, temp, backups, restores, ret,
                  returned, faults, writes, calls, snapshots >>

\* an execution that goes on with the next step whatever the step returned
ExWaitIgnoresFailure(t) ==
  /\ At(t, "execute_recovery_plan", "wait")
  /\ stack' = SetTop(t, [Top(t) EXCEPT !.pc = "step"])
  /\ UNCHANGED << sched, clock, serial, fs, archives, temp, backups, restores, ret,
                  returned, faults, writes, calls, snapshots, plans >>

\* lines 264-266, 497-534: the call of the backup system has ended; when it
\* raised, _execute_recovery_step returns False and the plan fails
ExWait(t) ==
  /\ At(t, "execute_recovery_plan", "wait")
  /\ IF ret[t].kind = "raise"
     THEN ExFail(t, Top(t).plan, "Recovery step failed")
     ELSE /\ stack' = SetTop(t, [Top(t) EXCEPT !.pc = "step"])
          /\ UNCHANGED << plans, ret >>
  /\ UNCHANGED << sched, clock, serial, fs, archives, temp, backups, restores,
                  returned, faults, writes, calls, snapshots >>

\* lines 268-271: all steps done: the plan is marked completed
ExComplete(t) ==
  /\ At(t, "execute_recovery_plan", "step")
  /\ Top(t).plan.current_step = Len(Top(t).plan.steps)
  /\ LET plan == [Top(t).plan EXCEPT !.status = "completed",
                                     !.progress_percent = 100]
     IN /\ plans' = UpdateRecoveryPlan(Top(t).id, plan)
        /\ stack' = SetTop(t, [Top(t) EXCEPT !.pc = "post_snapshot",
                                             !.plan = plan])
  /\ UNCHANGED << sched, clock, serial, fs, archives, temp, backups, restores, ret,
                  returned, faults, writes, calls, snapshots >>

\* lines 274-279: the post-recovery snapshot, then True is returned
ExPostSnapshot(t) ==
  /\ At(t, "execute_recovery_plan", "post_snapshot")
  /\ \E f \in FaultChoices :
       /\ faults' = Spend(f)
       /\ IF SnapshotFails(f)
          THEN /\ ExFail(t, Top(t).plan, "Error")
               /\ snapshots' \in FailedSnapshotTables
          ELSE /\ snapshots' = SnapshotTable
               /\ Finish(t, "execute_recovery_plan", Top(t).id, "ok", TRUE)
               /\ UNCHANGED plans
  /\ UNCHANGED << sched, clock, serial, fs, archives, temp, backups, restores,
                  returned, writes, calls >>

(***************************************************************************)
(* The restore world: a few live files, a few backups, restores, deletes    *)
(* and verifications, with I/O errors.                                      *)
(***************************************************************************)
\* restore_scope arguments: a scope that names two of the four domains, and
\* the full scope (the one test_restore_functionality passes)
DocumentsScope == [documents |-> TRUE, constitution |-> FALSE]
Scopes == {FullScope, DocumentsScope}

BackupIds == 1..MaxBackups

InitCommon ==
  /\ clock = 0
  /\ serial = 0
  /\ archives = << >>
  /\ temp = << >>
  /\ backups = << >>
  /\ restores = << >>
  /\ stack = [t \in Threads |-> << >>]
  /\ ret = [t \in Threads |-> NoRet]
  /\ returned = {}
  /\ writes = 0
  /\ calls = << >>
  /\ snapshots = << >>
  /\ plans = << >>
  /\ scheduler_running = FALSE
  /\ scheduler_thread = 0
  /\ jobs = << >>

\* the live files at the start: none, all, all but the conversation
InitFileSets ==
  {{}, AllPaths, AllPaths \ {"conversations/conversation_0.json"}}

Init ==
  /\ InitCommon
  /\ fs \in {[p \in S |-> 1] : S \in InitFileSets}
  /\ faults = MaxFaults

BackupSteps(t) ==
  \/ CbStage(t) \/ CbOpen(t) \/ CbWrite(t) \/ CbChecksum(t) \/ CbSave(t)
  \/ CbCleanup(t)

RestoreSteps(t) ==
  \/ RsBegin(t) \/ RsExtract(t) \/ RsFile(t) \/ RsComplete(t) \/ RsCleanup(t)

CatalogSteps(t) ==
  \/ VbCheck(t) \/ VbExtract(t) \/ DbUnlink(t) \/ DbRows(t)

\* the clock is read and the user writes between the calls
AllIdle == \A t \in Threads : Idle(t)

Next ==
  \/ clock < MaxSeconds /\ AllIdle /\ Tick(1)
  \/ \E p \in AllPaths, c \in Contents : AllIdle /\ UserWrite(p, c)
  \/ \E p \in AllPaths : AllIdle /\ UserDelete(p)
  \/ \E t \in Threads :
       \/ serial < MaxBackups /\ CreateBackup(t, "full")
       \/ BackupSteps(t)
       \/ \E b \in BackupIds, sc \in Scopes :
            Count("restore_from_backup") < MaxRestores
              /\ RestoreFromBackup(t, b, sc)
       \/ RestoreSteps(t)

Spec == Init /\ [][Next]_vars

(***************************************************************************)
(* The archive world: backups are created, verified and deleted, from any   *)
(* set of live files, with I/O errors.                                      *)
(***************************************************************************)
InitArchive ==
  /\ InitCommon
  /\ fs \in {[p \in S |-> 1] : S \in SUBSET AllPaths}
  /\ faults = MaxFaults

NextArchive ==
  \E t \in Threads :
    \/ serial < MaxBackups /\ CreateBackup(t, "full")
    \/ BackupSteps(t)
    \/ \E b \in BackupIds :
         Count("verify_backup") < MaxVerifies /\ VerifyBackup(t, b)
    \/ \E b \in BackupIds :
         Count("delete_backup") < MaxDeletes /\ DeleteBackup(t, b)
    \/ CatalogSteps(t)

SpecArchive == InitArchive /\ [][NextArchive]_vars

(***************************************************************************)
(* The catalog world: a catalog that grows beyond the rows list_backups     *)
(* returns, a clock that passes the retention window, a prune pass, a       *)
(* verification and a recovery plan.  No I/O errors.                        *)
(***************************************************************************)
CatalogSize == ListLimit + ExtraBackups

\* the clock jumps past the retention window
Month == (RetentionDays + 1) * SecondsPerDay

\* the backups the catalog world verifies, and the targets it plans for
ProbeIds == {1}
PlanTargets == {0}
TestComponents == {"constitution", "conversations"}

\* verifications, prune passes and plans requested so far
CatalogOps ==
  Count("verify_backup") + Count("cleanup_old_backups")
    + Count("create_recovery_plan")

InitCatalog ==
  /\ InitCommon
  /\ fs = [p \in AllPaths |-> 1]
  /\ faults = 0

NextCatalog ==
  \/ clock < Month /\ AllIdle /\ Tick(Month)
  \/ \E t \in Threads :
       \/ serial < CatalogSize /\ CreateBackup(t, "full")
       \/ BackupSteps(t)
       \/ \E b \in ProbeIds : CatalogOps < MaxCatalogOps /\ VerifyBackup(t, b)
       \/ CatalogOps < MaxCatalogOps /\ CleanupOldBackups(t)
       \/ \E target \in PlanTargets :
            CatalogOps < MaxCatalogOps
              /\ CreateRecoveryPlan(t, target, TestComponents)
       \/ CatalogSteps(t)
       \/ CuNext(t)
       \/ CuDone(t)

SpecCatalog == InitCatalog /\ [][NextCatalog]_vars

(***************************************************************************)
(* The plan world: a backup, a recovery plan for the present, and its       *)
(* execution (which calls create_backup and restore_from_backup) while the  *)
(* clock runs.                                                              *)
(***************************************************************************)
InitPlan ==
  /\ InitCommon
  /\ fs = [p \in AllPaths |-> 1]
  /\ faults = MaxFaults

PlanIds == 0..MaxSeconds

ExecuteSteps(t) ==
  \/ ExLoad(t) \/ ExPreSnapshot(t) \/ ExStep(t) \/ ExWait(t) \/ ExComplete(t)
  \/ ExPostSnapshot(t)

NextPlan ==
  \/ clock < MaxSeconds /\ Tick(1)
  \/ \E t \in Threads :
       \/ Count("create_backup") < 1 /\ CreateBackup(t, "full")
       \/ BackupSteps(t)
       \/ RestoreSteps(t)
       \/ Count("create_recovery_plan") < MaxPlans
            /\ CreateRecoveryPlan(t, clock, TestComponents)
       \/ \E id \in PlanIds :
            Count("execute_recovery_plan") < MaxExecutes
              /\ ExecuteRecoveryPlan(t, id)
       \/ ExecuteSteps(t)

SpecPlan == InitPlan /\ [][NextPlan]_vars

(***************************************************************************)
(* RecoveryManager: rollback_to_snapshot                                    *)
(***************************************************************************)
\* config_files in the order of the list, which is the order of the keys of
\* a captured configuration state
ConfigFileList ==
  << "config/config.yaml", ".env", "time_capsule/backup_config.json" >>

\* lines 661-685: the snapshot row with the id, if there is one
LoadSystemSnapshot(id) ==
  IF id \in DOMAIN snapshots THEN snapshots[id] ELSE << >>

\* what open(path, 'w') followed by a failing write can leave: the file as
\* it was (the open failed) or an empty file (the write failed)
FailedWrite(files, p) == {files, Put(files, p, 0)}

RollbackToSnapshot(t, snapshot_id) ==
  /\ Idle(t)
  /\ stack' = PushFrame(t, [op |-> "rollback_to_snapshot", pc |-> "load",
                            id |-> snapshot_id, snapshot |-> << >>,
                            pre |-> {}, todo |-> << >>])
  /\ calls' = Called("rollback_to_snapshot")
  /\ UNCHANGED << sched, clock, serial, fs, archives, temp, backups, restores, ret,
                  returned, faults, writes, snapshots, plans >>

\* lines 316-318: the handler logs the error and returns False
RbFail(t) == Finish(t, "rollback_to_snapshot", Top(t).id, "ok", FALSE)

\* lines 298-300: the target snapshot is loaded; not found: ValueError
RbLoad(t) ==
  /\ At(t, "rollback_to_snapshot", "load")
  /\ IF LoadSystemSnapshot(Top(t).id) = << >>
     THEN RbFail(t)
     ELSE /\ stack' = SetTop(t, [Top(t) EXCEPT
                        !.pc = "pre_snapshot",
                        !.snapshot = LoadSystemSnapshot(Top(t).id)])
          /\ UNCHANGED ret
  /\ UNCHANGED << sched, clock, serial, fs, archives, temp, backups, restores,
                  returned, faults, writes, calls, snapshots, plans >>

\* a rollback that goes on when the snapshot of the current state failed
RbPreSnapshotOptional(t) ==
  /\ At(t, "rollback_to_snapshot", "pre_snapshot")
  /\ \E f \in FaultChoices :
       /\ faults' = Spend(f)
       /\ snapshots' = IF SnapshotFails(f) THEN snapshots ELSE SnapshotTable
       /\ stack' = SetTop(t, [Top(t) EXCEPT
                      !.pc = "constitution",
                      !.pre = IF SnapshotFails(f) THEN {} ELSE {SnapshotId}])
       /\ UNCHANGED ret
  /\ UNCHANGED << sched, clock, serial, fs, archives, temp, backups, restores,
                  returned, writes, calls, plans >>

\* lines 302-305: the snapshot of the current state; pre is the local
\* current_snapshot ({} while unassigned)
RbPreSnapshot(t) ==
  /\ At(t, "rollback_to_snapshot", "pre_snapshot")
  /\ \E f \in FaultChoices :
       /\ faults' = Spend(f)
       /\ IF SnapshotFails(f)
          THEN /\ RbFail(t)
               /\ snapshots' \in FailedSnapshotTables
          ELSE /\ snapshots' = SnapshotTable
               /\ stack' = SetTop(t, [Top(t) EXCEPT
                              !.pc = "constitution",
                              !.pre = {SnapshotId}])
               /\ UNCHANGED ret
  /\ UNCHANGED << sched, clock, serial, fs, archives, temp, backups, restores,
                  returned, writes, calls, plans >>

\* lines 308, 611-622: the constitution file is opened for writing and the
\* captured document dumped into it
RbConstitution(t) ==
  /\ At(t, "rollback_to_snapshot", "constitution")
  /\ \E f \in FaultChoices :
       /\ faults' = Spend(f)
       /\ IF f
          THEN /\ fs' \in FailedWrite(fs, ConstitutionFile)
               /\ RbFail(t)
          ELSE /\ fs' = Put(fs, ConstitutionFile,
                            JsonDump(Top(t).snapshot.constitution_snapshot))
               /\ stack' = SetTop(t, [Top(t) EXCEPT
                     !.pc = "configuration",
                     !.todo = SelectSeq(ConfigFileList,
                                LAMBDA g : g \in DOMAIN
                                  Top(t).snapshot.configuration_snapshot)])
               /\ UNCHANGED ret
  /\ UNCHANGED << sched, clock, serial, archives, temp, backups, restores, returned,
                  writes, calls, snapshots, plans >>

\* lines 311, 624-639: the next captured configuration file is opened for
\* writing; a document is dumped, a text written as it is
RbConfiguration(t) ==
  /\ At(t, "rollback_to_snapshot", "configuration")
  /\ Top(t).todo # << >>
  /\ LET config_file == Head(Top(t).todo)
         content == Top(t).snapshot.configuration_snapshot[config_file]
     IN \E f \in FaultChoices :
          /\ faults' = Spend(f)
          /\ IF f
             THEN /\ fs' \in FailedWrite(fs, config_file)
                  /\ RbFail(t)
             ELSE /\ fs' = Put(fs, config_file,
                               IF IsJson(config_file) THEN JsonDump(content)
                               ELSE content)
                  /\ stack' = SetTop(t, [Top(t) EXCEPT !.todo = Tail(@)])
                  /\ UNCHANGED ret
  /\ UNCHANGED << sched, clock, serial, archives, temp, backups, restores, returned,
                  writes, calls, snapshots, plans >>

\* lines 313-314: True is returned
RbDone(t) ==
  /\ At(t, "rollback_to_snapshot", "configuration")
  /\ Top(t).todo = << >>
  /\ Finish(t, "rollback_to_snapshot", Top(t).id, "ok", TRUE)
  /\ UNCHANGED << sched, clock, serial, fs, archives, temp, backups, restores,
                  returned, faults, writes, calls, snapshots, plans >>

(***************************************************************************)
(* The rollback world: the constitution and configuration files, written    *)
(* and deleted by the user, snapshots and rollbacks, with I/O errors, while *)
(* the clock runs.                                                          *)
(***************************************************************************)
MaxSnapshots == 1      \* create_system_snapshot calls
MaxRollbacks == 2      \* rollback_to_snapshot calls

\* the constitution, a configuration text and a configuration document
BlobPaths ==
  {ConstitutionFile, "config/config.yaml", "time_capsule/backup_config.json"}

\* the files at the start: none, or all of them
InitBlobSets == {{}, BlobPaths}

SnapshotIds == 0..(MaxSeconds + 1)

InitRollback ==
  /\ InitCommon
  /\ fs \in {[p \in S |-> 1] : S \in InitBlobSets}
  /\ faults = MaxFaults

RollbackSteps(t) ==
  \/ RbLoad(t) \/ RbPreSnapshot(t) \/ RbConstitution(t) \/ RbConfiguration(t)
  \/ RbDone(t)

NextRollback ==
  \/ clock < MaxSeconds + 1 /\ AllIdle /\ Tick(1)
  \/ \E p \in BlobPaths, c \in Contents : AllIdle /\ UserWrite(p, c)
  \/ \E p \in BlobPaths : AllIdle /\ UserDelete(p)
  \/ \E t \in Threads :
       \/ Count("create_system_snapshot") < MaxSnapshots
            /\ CreateSystemSnapshot(t)
       \/ \E id \in SnapshotIds :
            Count("rollback_to_snapshot") < MaxRollbacks
              /\ RollbackToSnapshot(t, id)
       \/ RollbackSteps(t)

SpecRollback == InitRollback /\ [][NextRollback]_vars

(***************************************************************************)
(* The risk world: one backup, a clock that jumps by a number of half days, *)
(* and a recovery plan for a target in the past or in the future, for any   *)
(* list of components.                                                      *)
(***************************************************************************)
HalfDay == SecondsPerDay \div 2

\* the clock's jumps, in half days: around 1 day, 7 days and 30 days
GapHalfDays == {2, 3, 4, 14, 15, 16, 60, 61, 62}

\* the targets of the plans: the time of the backup, and a time after every
\* reading of the clock
RiskTargets == {0, 80 * HalfDay}

RiskComponents == {"constitution", "configuration", "conversations"}

InitRisk ==
  /\ InitCommon
  /\ fs = [p \in AllPaths |-> 1]
  /\ faults = 0

NextRisk ==
  \/ \E k \in GapHalfDays : clock = 0 /\ AllIdle /\ Tick(k * HalfDay)
  \/ \E t \in Threads :
       \/ Count("create_backup") < 1 /\ CreateBackup(t, "full")
       \/ BackupSteps(t)
       \/ \E target \in RiskTargets, components \in SUBSET RiskComponents :
            Count("create_recovery_plan") < MaxPlans
              /\ CreateRecoveryPlan(t, target, components)

SpecRisk == InitRisk /\ [][NextRisk]_vars

(***************************************************************************)
(* The scheduler: start_automated_backups, stop_automated_backups and the   *)
(* worker threads running _run_scheduler over the jobs of the `schedule`    *)
(* library.                                                                 *)
(***************************************************************************)
MaxStarts == 2         \* start_automated_backups calls
MaxStops == 1          \* stop_automated_backups calls

Hour == 3600
Week == 7 * SecondsPerDay

\* the thread the i-th start creates
WorkerName(i) == "w" \o ToString(i)
Workers == {WorkerName(i) : i \in 1..MaxStarts}

\* the first time after `now` that is `offset` into a period
NextAt(now, period, offset) ==
  IF now % period < offset THEN now - (now % period) + offset
  ELSE now - (now % period) + period + offset

\* the clock's 0 is a Thursday, 00:00
SundayOneOClock == 3 * SecondsPerDay + Hour

\* lines 439-441: when a job of the kind runs next
NextRun(name, now) ==
  CASE name = "full" -> NextAt(now, SecondsPerDay, 2 * Hour)
    [] name = "incremental" -> now + 6 * Hour
    [] name = "prune" -> NextAt(now, Week, SundayOneOClock)

JobNames == << "full", "incremental", "prune" >>

\* a job object: its kind, the start that registered it, its next run
Job(name, reg, now) ==
  [name |-> name, reg |-> reg, next_run |-> NextRun(name, now)]

\* the jobs run_pending finds due, by next_run (of equal ones the one
\* registered first)
RECURSIVE SortedDue(_)
SortedDue(idx) ==
  IF idx = {} THEN << >>
  ELSE LET first == CHOOSE i \in idx : \A k \in idx \ {i} :
                      \/ jobs[i].next_run < jobs[k].next_run
                      \/ jobs[i].next_run = jobs[k].next_run /\ i < k
       IN << jobs[first] >> \o SortedDue(idx \ {first})

RunnableJobs == SortedDue({i \in DOMAIN jobs : clock >= jobs[i].next_run})

\* a worker thread is alive while it runs _run_scheduler
Alive(w) == stack[w] # << >>

\* lines 459-490: get_backup_statistics, the fields the model follows
GetBackupStatistics ==
  IF ListBackups(ListLimit) = {}
  THEN [total_backups |-> 0]
  ELSE [total_backups |-> Cardinality(ListBackups(ListLimit)),
        scheduler_running |-> scheduler_running]

StartAutomatedBackups(t) ==
  /\ Idle(t)
  /\ stack' = PushFrame(t, [op |-> "start_automated_backups", pc |-> "begin"])
  /\ calls' = Called("start_automated_backups")
  /\ UNCHANGED << sched, clock, serial, fs, archives, temp, backups, restores,
                  ret, returned, faults, writes, snapshots, plans >>

\* lines 433-436: nothing to do when running, else the flag is set
SaBegin(t) ==
  /\ At(t, "start_automated_backups", "begin")
  /\ IF scheduler_running
     THEN /\ Finish(t, "start_automated_backups", 0, "ok", 0)
          /\ UNCHANGED scheduler_running
     ELSE /\ scheduler_running' = TRUE
          /\ stack' = SetTop(t, [Top(t) EXCEPT !.pc = "register"])
          /\ UNCHANGED ret
  /\ UNCHANGED << scheduler_thread, jobs, clock, serial, fs, archives, temp,
                  backups, restores, returned, faults, writes, calls,
                  snapshots, plans >>

\* lines 439-441: the three jobs are appended to schedule.jobs
SaRegister(t) ==
  /\ At(t, "start_automated_backups", "register")
  /\ jobs' = jobs \o [i \in 1..Len(JobNames) |->
                        Job(JobNames[i], scheduler_thread + 1, clock)]
  /\ stack' = SetTop(t, [Top(t) EXCEPT !.pc = "thread"])
  /\ UNCHANGED << scheduler_running, scheduler_thread, clock, serial, fs,
                  archives, temp, backups, restores, ret, returned, faults,
                  writes, calls, snapshots, plans >>

RunSchedulerFrame ==
  [op |-> "run_scheduler", pc |-> "check", todo |-> << >>]

\* lines 444-445: a new thread is made, kept in scheduler_thread and started
SaThread(t) ==
  /\ At(t, "start_automated_backups", "thread")
  /\ scheduler_thread' = scheduler_thread + 1
  /\ stack' = [stack EXCEPT
                 ![t] = SubSeq(@, 1, Len(@) - 1),
                 ![WorkerName(scheduler_thread + 1)] = << RunSchedulerFrame >>]
  /\ ret' = [ret EXCEPT ![t] = [op |-> "start_automated_backups", arg |-> 0,
                                kind |-> "ok", val |-> 0]]
  /\ UNCHANGED << scheduler_running, jobs, clock, serial, fs, archives, temp,
                  backups, restores, returned, faults, writes, calls,
                  snapshots, plans >>

StopAutomatedBackups(t) ==
  /\ Idle(t)
  /\ stack' = PushFrame(t, [op |-> "stop_automated_backups", pc |-> "flag"])
  /\ calls' = Called("stop_automated_backups")
  /\ UNCHANGED << sched, clock, serial, fs, archives, temp, backups, restores,
                  ret, returned, faults, writes, snapshots, plans >>

\* line 451
SoFlag(t) ==
  /\ At(t, "stop_automated_backups", "flag")
  /\ scheduler_running' = FALSE
  /\ stack' = SetTop(t, [Top(t) EXCEPT !.pc = "clear"])
  /\ UNCHANGED << scheduler_thread, jobs, clock, serial, fs, archives, temp,
                  backups, restores, ret, returned, faults, writes, calls,
                  snapshots, plans >>

\* line 452: schedule.clear()
SoClear(t) ==
  /\ At(t, "stop_automated_backups", "clear")
  /\ jobs' = << >>
  /\ stack' = SetTop(t, [Top(t) EXCEPT !.pc = "join"])
  /\ UNCHANGED << scheduler_running, scheduler_thread, clock, serial, fs,
                  archives, temp, backups, restores, ret, returned, faults,
                  writes, calls, snapshots, plans >>

\* a thread that does not end within the five seconds of the join: it is in
\* its sleep of 60 seconds, or inside a job
OutlastsJoin(w) == At(w, "run_scheduler", "sleep") \/ Len(stack[w]) > 1

\* lines 454-457: join(timeout=5) returns when the thread has ended or the
\* five seconds have passed, whichever is first
SoJoin(t) ==
  /\ At(t, "stop_automated_backups", "join")
  /\ scheduler_thread # 0
       => \/ ~Alive(WorkerName(scheduler_thread))
          \/ OutlastsJoin(WorkerName(scheduler_thread))
  /\ Finish(t, "stop_automated_backups", 0, "ok", 0)
  /\ UNCHANGED << sched, clock, serial, fs, archives, temp, backups, restores,
                  returned, faults, writes, calls, snapshots, plans >>

\* line 662: the loop's test of the flag; the thread ends when it is false
WkCheck(w) ==
  /\ At(w, "run_scheduler", "check")
  /\ IF scheduler_running
     THEN /\ stack' = SetTop(w, [Top(w) EXCEPT !.pc = "pending"])
          /\ UNCHANGED ret
     ELSE Finish(w, "run_scheduler", 0, "ok", 0)
  /\ UNCHANGED << sched, clock, serial, fs, archives, temp, backups, restores,
                  returned, faults, writes, calls, snapshots, plans >>

\* line 663: run_pending collects the jobs that are due
WkPending(w) ==
  /\ At(w, "run_scheduler", "pending")
  /\ stack' = SetTop(w, [Top(w) EXCEPT !.pc = "run", !.todo = RunnableJobs])
  /\ UNCHANGED << sched, clock, serial, fs, archives, temp, backups, restores,
                  ret, returned, faults, writes, calls, snapshots, plans >>

\* lines 631-649: the next due job is called: the full or the incremental
\* job calls create_backup, the prune job lists the backups (an error of
\* the listing is logged by the job) and walks through them
WkRun(w) ==
  /\ At(w, "run_scheduler", "run")
  /\ Top(w).todo # << >>
  /\ LET fr == Top(w)
         job == Head(fr.todo)
         waiting == [fr EXCEPT !.pc = "wait"]
         calling(callee) ==
           [stack EXCEPT ![w] = Append([@ EXCEPT ![Len(@)] = waiting], callee)]
     IN IF job.name = "prune"
        THEN \E f \in FaultChoices :
               /\ faults' = Spend(f)
               /\ IF f
                  THEN /\ stack' = SetTop(w, waiting)
                       /\ ret' = [ret EXCEPT ![w] =
                                    [op |-> "cleanup_old_backups", arg |-> 0,
                                     kind |-> "ok", val |-> "sqlite3.Error"]]
                  ELSE /\ stack' = calling(
                            [op |-> "cleanup_old_backups", pc |-> "loop",
                             now |-> clock,
                             todo |-> SortedDesc(ListBackups(ListLimit)),
                             rows |-> backups])
                       /\ UNCHANGED ret
               /\ UNCHANGED serial
        ELSE /\ stack' = calling(CreateBackupFrame(job.name))
             /\ serial' = serial + 1
             /\ UNCHANGED << faults, ret >>
  /\ UNCHANGED << sched, clock, fs, archives, temp, backups, restores,
                  returned, writes, calls, snapshots, plans >>

\* the job object of a worker's frame gets its next run
Reschedule(job) ==
  [i \in DOMAIN jobs |->
     IF jobs[i].name = job.name /\ jobs[i].reg = job.reg
     THEN [jobs[i] EXCEPT !.next_run = NextRun(job.name, clock)]
     ELSE jobs[i]]

\* a job whose error reaches run_pending and _run_scheduler: the thread ends
WkWaitPropagates(w) ==
  /\ At(w, "run_scheduler", "wait")
  /\ IF ret[w].kind = "raise"
     THEN /\ stack' = PopFrame(w)
          /\ UNCHANGED jobs
     ELSE /\ jobs' = Reschedule(Head(Top(w).todo))
          /\ stack' = SetTop(w, [Top(w) EXCEPT !.pc = "run", !.todo = Tail(@)])
  /\ UNCHANGED << scheduler_running, scheduler_thread, clock, serial, fs,
                  archives, temp, backups, restores, ret, returned, faults,
                  writes, calls, snapshots, plans >>

\* lines 633-643: the job has returned (what create_backup raised was logged
\* by the job); the library gives the job its next run
WkWait(w) ==
  /\ At(w, "run_scheduler", "wait")
  /\ jobs' = Reschedule(Head(Top(w).todo))
  /\ stack' = SetTop(w, [Top(w) EXCEPT !.pc = "run", !.todo = Tail(@)])
  /\ UNCHANGED << scheduler_running, scheduler_thread, clock, serial, fs,
                  archives, temp, backups, restores, ret, returned, faults,
                  writes, calls, snapshots, plans >>

\* line 664: no due job is left: time.sleep(60)
WkSleep(w) ==
  /\ At(w, "run_scheduler", "run")
  /\ Top(w).todo = << >>
  /\ stack' = SetTop(w, [Top(w) EXCEPT !.pc = "sleep"])
  /\ UNCHANGED << sched, clock, serial, fs, archives, temp, backups, restores,
                  ret, returned, faults, writes, calls, snapshots, plans >>

\* the sleep is over
WkWake(w) ==
  /\ At(w, "run_scheduler", "sleep")
  /\ stack' = SetTop(w, [Top(w) EXCEPT !.pc = "check"])
  /\ UNCHANGED << sched, clock, serial, fs, archives, temp, backups, restores,
                  ret, returned, faults, writes, calls, snapshots, plans >>

(***************************************************************************)
(* The scheduler world: one caller starting and stopping the scheduler, the *)
(* worker threads, and a clock that reaches the due time of the full and    *)
(* the incremental job.  No I/O errors.                                     *)
(***************************************************************************)
SchedulerThreads == Threads \cup Workers

InitThreads(faulty) ==
  /\ clock = 0
  /\ serial = 0
  /\ fs = [p \in AllPaths |-> 1]
  /\ archives = << >>
  /\ temp = << >>
  /\ backups = << >>
  /\ restores = << >>
  /\ stack = [t \in SchedulerThreads |-> << >>]
  /\ ret = [t \in SchedulerThreads |-> NoRet]
  /\ returned = {}
  /\ faults = faulty
  /\ writes = 0
  /\ calls = << >>
  /\ snapshots = << >>
  /\ plans = << >>
  /\ scheduler_running = FALSE
  /\ scheduler_thread = 0
  /\ jobs = << >>

InitScheduler == InitThreads(0)

StartSteps(t) == SaBegin(t) \/ SaRegister(t) \/ SaThread(t)

StopSteps(t) == SoFlag(t) \/ SoClear(t) \/ SoJoin(t)

LoopSteps(w) ==
  \/ WkCheck(w) \/ WkPending(w) \/ WkRun(w) \/ WkWait(w) \/ WkSleep(w)
  \/ WkWake(w)

\* the workers are asleep or ended
Quiet == \A w \in Workers : Alive(w) => At(w, "run_scheduler", "sleep")

NextScheduler ==
  \/ clock < 6 * Hour /\ AllIdle /\ Quiet /\ Tick(6 * Hour)
  \/ \E t \in Threads :
       \/ Count("start_automated_backups") < MaxStarts
            /\ StartAutomatedBackups(t)
       \/ StartSteps(t)
       \/ Count("stop_automated_backups") < MaxStops
            /\ StopAutomatedBackups(t)
       \/ StopSteps(t)
  \/ \E w \in Workers : LoopSteps(w) \/ BackupSteps(w)

SpecScheduler == InitScheduler /\ [][NextScheduler]_vars

(***************************************************************************)
(* The jobs world: the scheduler is started once, its worker runs the jobs  *)
(* as they fall due (backups and a prune pass, with I/O errors) while the   *)
(* clock passes the due times and the retention window.  A call that has    *)
(* begun goes on, and so does a worker thread.                              *)
(***************************************************************************)
\* the readings the clock jumps to: the full and the incremental job are
\* due; all jobs are due and the backups made before have expired
SchedulerClocks == {6 * Hour, 6 * Hour + Month}

InitJobs == InitThreads(MaxFaults)

JobSteps(w) ==
  \/ LoopSteps(w)
  \/ BackupSteps(w)
  \/ CuNext(w) \/ CuDone(w) \/ DbUnlink(w) \/ DbRows(w)

NextJobs ==
  \/ \E c \in SchedulerClocks :
       c > clock /\ AllIdle /\ Quiet /\ Tick(c - clock)
  \/ \E t \in Threads :
       \/ scheduler_thread = 0 /\ StartAutomatedBackups(t)
       \/ StartSteps(t)
       \/ Count("stop_automated_backups") < MaxStops
            /\ StopAutomatedBackups(t)
       \/ StopSteps(t)
  \/ \E w \in Workers : JobSteps(w)

SpecJobs ==
  /\ InitJobs
  /\ [][NextJobs]_vars
  /\ \A t \in Threads : WF_vars(StartSteps(t) \/ StopSteps(t))
  /\ \A w \in Workers : WF_vars(JobSteps(w))

(***************************************************************************)
(* The domains world: a backup, the user's writes to the live files, a      *)
(* recovery plan for two of the domains and its execution.  No I/O errors.  *)
(***************************************************************************)
InitDomains ==
  /\ InitCommon
  /\ fs = [p \in AllPaths |-> 1]
  /\ faults = 0

NextDomains ==
  \/ clock < MaxSeconds /\ AllIdle /\ Tick(1)
  \/ \E p \in AllPaths, c \in Contents : AllIdle /\ UserWrite(p, c)
  \/ \E p \in AllPaths : AllIdle /\ UserDelete(p)
  \/ \E t \in Threads :
       \/ Count("create_backup") < 1 /\ CreateBackup(t, "full")
       \/ BackupSteps(t)
       \/ RestoreSteps(t)
       \/ Count("create_recovery_plan") < MaxPlans
            /\ CreateRecoveryPlan(t, clock, TestComponents)
       \/ \E id \in PlanIds :
            Count("execute_recovery_plan") < 1 /\ ExecuteRecoveryPlan(t, id)
       \/ ExecuteSteps(t)

SpecDomains == InitDomains /\ [][NextDomains]_vars

(***************************************************************************)
(* The race world: two threads on one backup system; one takes a backup     *)
(* and restores from it, the other deletes the backup.  Between threads the *)
(* lookup of the backup and the insert of the restore row are two steps     *)
(* (two database transactions); RsBegin is the two taken together, which is *)
(* what a single thread sees.  The backup deleted is one create_backup has  *)
(* returned.  No I/O errors.                                                *)
(***************************************************************************)
RaceThreads == {"t1", "t2"}

\* lines 248-252: get_backup_metadata; not found: as in RsBegin
RsLookup(t) ==
  /\ At(t, "restore_from_backup", "begin")
  /\ IF ~GetBackupMetadata(Top(t).backup_id)
     THEN Finish(t, "restore_from_backup", Top(t).backup_id, "raise",
                 "UnboundLocalError")
     ELSE /\ stack' = SetTop(t, [Top(t) EXCEPT
                 !.pc = "insert",
                 !.manifest = backups[Top(t).backup_id].files_included])
          /\ UNCHANGED ret
  /\ UNCHANGED << sched, clock, serial, fs, archives, temp, backups, restores,
                  returned, faults, writes, calls, snapshots, plans >>

\* lines 255-267: the restore point is built and its row inserted
RsInsert(t) ==
  /\ At(t, "restore_from_backup", "insert")
  /\ LET fr == [Top(t) EXCEPT !.rp = [status |-> "in_progress",
                                      progress_percent |-> 0,
                                      error_message |-> ""]] IN
     IF fr.id \in DOMAIN restores
     THEN /\ restores' = UpdateRestorePoint(fr.id,
                           [fr.rp EXCEPT !.status = "failed",
                                         !.error_message = "IntegrityError"])
          /\ Finish(t, "restore_from_backup", fr.backup_id, "raise",
                    "IntegrityError")
     ELSE /\ restores' = Put(restores, fr.id, RestoreRow(fr))
          /\ stack' = SetTop(t, [fr EXCEPT !.pc = "extract"])
          /\ UNCHANGED ret
  /\ UNCHANGED << sched, clock, serial, fs, archives, temp, backups, returned,
                  faults, writes, calls, snapshots, plans >>

InitRace ==
  /\ clock = 0
  /\ serial = 0
  /\ fs = [p \in AllPaths |-> 1]
  /\ archives = << >>
  /\ temp = << >>
  /\ backups = << >>
  /\ restores = << >>
  /\ stack = [t \in RaceThreads |-> << >>]
  /\ ret = [t \in RaceThreads |-> NoRet]
  /\ returned = {}
  /\ faults = 0
  /\ writes = 0
  /\ calls = << >>
  /\ snapshots = << >>
  /\ plans = << >>
  /\ scheduler_running = FALSE
  /\ scheduler_thread = 0
  /\ jobs = << >>

NextRace ==
  \/ clock < MaxSeconds /\ Tick(1)
  \/ Count("create_backup") < 1 /\ CreateBackup("t1", "full")
  \/ BackupSteps("t1")
  \/ \E b \in BackupIds :
       Count("restore_from_backup") < MaxRestores
         /\ RestoreFromBackup("t1", b, FullScope)
  \/ RsLookup("t1") \/ RsInsert("t1") \/ RsExtract("t1") \/ RsFile("t1")
  \/ RsComplete("t1") \/ RsCleanup("t1")
  \/ \E b \in returned :
       Count("delete_backup") < MaxDeletes /\ DeleteBackup("t2", b)
  \/ DbUnlink("t2") \/ DbRows("t2")

SpecRace == InitRace /\ [][NextRace]_vars

(***************************************************************************)
(* The life world: the whole life of a backup under every operation of the  *)
(* two classes: it is created, verified, restored from by the execution of  *)
(* a plan and deleted, while snapshots are taken and rolled back to, with   *)
(* I/O errors.                                                              *)
(***************************************************************************)
InitLife ==
  /\ InitCommon
  /\ fs = [p \in {ConstitutionFile, ".env"} |-> 1]
  /\ faults = MaxFaults

\* each operation is called once
Uncalled(op) == Count(op) = 0

NextLife ==
  \/ clock < MaxSeconds /\ AllIdle /\ Tick(1)
  \/ \E t \in Threads :
       \/ Uncalled("create_backup") /\ CreateBackup(t, "full")
       \/ BackupSteps(t)
       \/ \E b \in returned : Uncalled("verify_backup") /\ VerifyBackup(t, b)
       \/ \E b \in returned : Uncalled("delete_backup") /\ DeleteBackup(t, b)
       \/ CatalogSteps(t)
       \/ RestoreSteps(t)
       \/ Uncalled("create_system_snapshot") /\ CreateSystemSnapshot(t)
       \/ \E id \in DOMAIN snapshots :
            Uncalled("rollback_to_snapshot") /\ RollbackToSnapshot(t, id)
       \/ RollbackSteps(t)
       \/ Uncalled("create_recovery_plan")
            /\ CreateRecoveryPlan(t, clock, TestComponents)
       \/ \E id \in DOMAIN plans :
            Uncalled("execute_recovery_plan") /\ ExecuteRecoveryPlan(t, id)
       \/ ExecuteSteps(t)

SpecLife == InitLife /\ [][NextLife]_vars

(***************************************************************************)
(* Properties.                                                              *)
(***************************************************************************)
\* thread t ends the call on top of its stack in this step
Ends(t, o) == ~Idle(t) /\ Top(t).op = o /\ Len(stack'[t]) < Len(stack[t])

\* C1: a full-scope restore that returns leaves every file of the backup's
\* manifest on disk, at its path, with the content the archive holds for it
\* (the content it had when the backup was taken).
C1_RoundTrip ==
  [][\A t \in Threads :
       (/\ Ends(t, "restore_from_backup")
        /\ ret'[t].kind = "ok"
        /\ Top(t).scope = FullScope)
       => \A p \in Range(Top(t).manifest) :
            /\ p \in DOMAIN fs'
            /\ fs'[p] = archives[Top(t).backup_id].files[p]]_vars

\* C2: no step of a restore with scope {documents: true, constitution: false}
\* changes a live file of a domain other than documents.
C2_ScopeIsolation ==
  [][\A t \in Threads :
       (/\ ~Idle(t)
        /\ Top(t).op = "restore_from_backup"
        /\ Top(t).scope = DocumentsScope)
       => \A p \in AllPaths :
            CategoryOf(p) # "documents"
              => /\ (p \in DOMAIN fs) = (p \in DOMAIN fs')
                 /\ p \in DOMAIN fs => fs'[p] = fs[p]]_vars

\* the archive of id is on disk as create_backup wrote it
Intact(id) ==
  /\ id \in DOMAIN backups
  /\ id \in DOMAIN archives
  /\ Digest(archives[id]) = backups[id].checksum

\* C3: a verify_backup of a backup id that create_backup returned, whose row
\* was not deleted and whose archive is unmodified on disk, returns true.
C3_VerifyStaysTrue ==
  [][\A t \in Threads :
       (/\ Ends(t, "verify_backup")
        /\ Top(t).id \in returned
        /\ Intact(Top(t).id))
       => ret'[t].val = TRUE]_vars

\* C4: delete_backup never raises, and returns true only when a backup row
\* with the id existed and was removed (false for an id without a row).
C4_DeleteTruthful ==
  [][\A t \in Threads :
       Ends(t, "delete_backup")
       => /\ ret'[t].kind = "ok"
          /\ ret'[t].val = TRUE
               => /\ Top(t).id \in DOMAIN backups
                  /\ Top(t).id \notin DOMAIN backups']_vars

\* C5: the progress of a restore row never decreases, stays within 0..100,
\* and is 100 only in a row whose status is completed.
C5_Progress ==
  [][\A r \in DOMAIN restores' :
       /\ restores'[r].progress_percent \in 0..100
       /\ restores'[r].progress_percent = 100
            => restores'[r].status = "completed"
       /\ r \in DOMAIN restores
            => restores'[r].progress_percent >= restores[r].progress_percent]_vars

\* C6: the status of a restore row is in_progress, then completed or failed,
\* and a completed or failed row never changes its status again.
C6_RestoreTerminal ==
  [][\A r \in DOMAIN restores \cap DOMAIN restores' :
       /\ restores[r].status \in {"completed", "failed"}
            => restores'[r].status = restores[r].status
       /\ restores[r].status = "in_progress"
            => restores'[r].status \in {"in_progress", "completed", "failed"}]_vars

\* C7: the status of a plan moves planned, executing, then completed or
\* failed; once completed or failed, its status, current_step and progress
\* never change again.
C7_PlanTerminal ==
  [][\A p \in DOMAIN plans \cap DOMAIN plans' :
       /\ plans[p].status \in {"completed", "failed"}
            => /\ plans'[p].status = plans[p].status
               /\ plans'[p].current_step = plans[p].current_step
               /\ plans'[p].progress_percent = plans[p].progress_percent
       /\ plans[p].status = "planned"
            => plans'[p].status \in {"planned", "executing"}
       /\ plans[p].status = "executing"
            => plans'[p].status \in {"executing", "completed", "failed"}]_vars

\* all catalogued verified backups at or before the target
AllSuitable(target) ==
  {b \in DOMAIN backups :
     /\ backups[b].timestamp <= target
     /\ backups[b].verification_status = "verified"}

\* C8: create_recovery_plan(target) fails with "no suitable backup", storing
\* no plan, exactly when no catalogued verified backup is at or before the
\* target; otherwise the plan's restore step names a catalogued verified
\* backup of greatest created_at at or before the target.
C8_BestBackup ==
  [][\A t \in Threads :
       ret'[t] # ret[t] /\ ret'[t].op = "create_recovery_plan"
       => LET target == ret'[t].arg IN
          IF AllSuitable(target) = {}
          THEN ret'[t].kind = "raise" /\ plans' = plans
          ELSE /\ ret'[t].kind = "ok"
               /\ LET b == plans'[ret'[t].val].steps[3].backup_id IN
                  /\ b \in AllSuitable(target)
                  /\ \A a \in AllSuitable(target) :
                       backups[a].timestamp <= backups[b].timestamp]_vars

\* C9: a prune pass deletes only backups whose age in days exceeds their
\* retention_days, and when the pass ends no such backup is left in the
\* catalog.
C9_PruneExact ==
  [][\A t \in Threads :
       /\ (Ends(t, "cleanup_old_backups"))
            => \A b \in DOMAIN backups' : ~Expired(Top(t).now, backups'[b])
       /\ (Ends(t, "delete_backup") /\ Len(stack[t]) > 1
             /\ Top(t).id \in DOMAIN backups)
            => \/ Expired(stack[t][1].now, backups[Top(t).id])
               \/ Top(t).id \in DOMAIN backups']_vars

\* C10: every backup row carries the digest of a completely written archive
\* holding the files of its manifest; while the archive file is on disk it
\* is that complete archive; and a create_backup that has not yet computed
\* its checksum and reached the insert has no row.
C10_NoHalfWrittenRecord ==
  /\ \A id \in DOMAIN backups :
       /\ backups[id].checksum[1] = "sha256"
       /\ backups[id].checksum[2].complete
       /\ DOMAIN backups[id].checksum[2].files
            = Range(backups[id].files_included)
       /\ id \in DOMAIN archives
            => /\ archives[id].complete
               /\ Digest(archives[id]) = backups[id].checksum
  /\ \A t \in Threads : \A i \in 1..Len(stack[t]) :
       (stack[t][i].op = "create_backup" /\ stack[t][i].pc # "cleanup")
         => stack[t][i].id \notin DOMAIN backups

\* a catalogued backup with its archive on disk, returned by create_backup,
\* while a later create_backup is between opening and closing its archive
C10_Witness ==
  /\ \E id \in returned : id \in DOMAIN backups /\ id \in DOMAIN archives
  /\ \E t \in Threads : At(t, "create_backup", "write")

\* C11: a create_backup that raises leaves no catalog row and no archive file
\* of its backup id, and a create_backup that inserted its row returns the id.
C11_AllOrNothing ==
  [][\A t \in Threads :
       Ends(t, "create_backup")
       => /\ ret'[t].kind = "raise"
               => /\ Top(t).id \notin DOMAIN backups'
                  /\ Top(t).id \notin DOMAIN archives'
          /\ Top(t).id \in DOMAIN backups'
               => ret'[t].kind = "ok" /\ ret'[t].val = Top(t).id]_vars

\* C12: when create_backup, restore_from_backup or verify_backup ends, by a
\* return or by a raise, the directory the call made under the temp path
\* (staging, extraction, verification) is not there any more.
C12_ScratchRemoved ==
  [][\A t \in Threads :
       /\ Ends(t, "create_backup")
            => StagingDir(Top(t).id) \notin DOMAIN temp'
       /\ Ends(t, "restore_from_backup")
            => ExtractDir(Top(t).id) \notin DOMAIN temp'
       /\ Ends(t, "verify_backup")
            => VerifyDir(Top(t).id) \notin DOMAIN temp']_vars

\* C13: restore_from_backup of a backup id without a catalog row raises the
\* not-found error (the ValueError "Backup <id> not found") to the caller,
\* with no restore row written and no live file changed.
C13_RestoreNotFound ==
  [][\A t \in Threads :
       (/\ At(t, "restore_from_backup", "begin")
        /\ Top(t).backup_id \notin DOMAIN backups
        /\ stack'[t] # stack[t])
       => /\ Ends(t, "restore_from_backup")
          /\ ret'[t].kind = "raise"
          /\ ret'[t].val = "ValueError"
          /\ restores' = restores
          /\ fs' = fs]_vars

\* C14: a restore_from_backup that raises after it inserted its restore row
\* leaves that row failed, with the error it raises as the message; the
\* raise changes no live file, and the entries copied back before the error
\* still hold the archive's content.
C14_FailedRestoreRecorded ==
  [][\A t \in Threads :
       (/\ Ends(t, "restore_from_backup")
        /\ ret'[t].kind = "raise"
        /\ Top(t).pc \in {"extract", "files", "cleanup"})
       => /\ Top(t).id \in DOMAIN restores'
          /\ restores'[Top(t).id].status = "failed"
          /\ restores'[Top(t).id].error_message = ret'[t].val
          /\ ret'[t].val = "OSError"
          /\ fs' = fs
          /\ \A i \in 1..Top(t).restored :
               LET p == Top(t).manifest[i]
                   extracted == temp[ExtractDir(Top(t).id)] IN
               (ShouldRestore(p, Top(t).scope) /\ p \in DOMAIN extracted)
                 => p \in DOMAIN fs' /\ fs'[p] = extracted[p]]_vars

\* a restore has raised after copying part of the manifest back: its row is
\* failed with the error and a progress above 0
C14_Witness ==
  \E t \in Threads : \E r \in DOMAIN restores :
    /\ ret[t].op = "restore_from_backup"
    /\ ret[t].kind = "raise"
    /\ ret[t].val = "OSError"
    /\ restores[r].status = "failed"
    /\ restores[r].error_message = "OSError"
    /\ restores[r].progress_percent > 0
    /\ restores[r].progress_percent < 100

\* C15: execute_recovery_plan takes the steps in plan order (current_step
\* goes up by one at a time from 0), and when a step fails the call ends
\* there: the plan is failed with a message, its current_step is the failed
\* step, false is returned, and nothing the earlier steps did is undone.
C15_FirstFailureAborts ==
  [][\A t \in Threads :
       /\ (/\ At(t, "execute_recovery_plan", "wait")
           /\ ret[t].kind = "raise"
           /\ stack'[t] # stack[t])
          => /\ Ends(t, "execute_recovery_plan")
             /\ ret'[t].kind = "ok"
             /\ ret'[t].val = FALSE
             /\ plans'[Top(t).id].status = "failed"
             /\ plans'[Top(t).id].error_message # ""
             /\ plans'[Top(t).id].current_step = Top(t).plan.current_step
             /\ fs' = fs
             /\ archives' = archives
             /\ backups' = backups
             /\ restores' = restores
       /\ (/\ ~Idle(t)
           /\ Top(t).op = "execute_recovery_plan"
           /\ Top(t).id \in DOMAIN plans
           /\ plans'[Top(t).id].current_step # plans[Top(t).id].current_step)
          => \/ plans'[Top(t).id].current_step
                  = plans[Top(t).id].current_step + 1
             \/ Top(t).pc = "load" /\ plans'[Top(t).id].current_step = 0]_vars

\* an execution has ended at its failed restore step (the third), with the
\* backup its first step made still in the catalog
C15_Witness ==
  \E t \in Threads : \E p \in DOMAIN plans :
    /\ Idle(t)
    /\ ret[t].op = "execute_recovery_plan"
    /\ ret[t].kind = "ok"
    /\ ret[t].val = FALSE
    /\ plans[p].status = "failed"
    /\ plans[p].error_message = "Recovery step failed"
    /\ plans[p].current_step = 3
    /\ Cardinality(DOMAIN backups) >= 2

\* C16: when all steps of a plan have succeeded and no I/O error occurs,
\* execute_recovery_plan returns true, the plan's row is completed with
\* progress 100, and a post-recovery snapshot is recorded, however little
\* time the run took.
C16_SuccessCompletes ==
  [][\A t \in Threads :
       (/\ At(t, "execute_recovery_plan", "post_snapshot")
        /\ faults' = faults
        /\ stack'[t] # stack[t])
       => /\ Ends(t, "execute_recovery_plan")
          /\ ret'[t].kind = "ok"
          /\ ret'[t].val = TRUE
          /\ plans'[Top(t).id].status = "completed"
          /\ plans'[Top(t).id].progress_percent = 100
          /\ snapshots' # snapshots]_vars

\* C17: every step of execute_recovery_plan runs with the pre-recovery
\* snapshot in the snapshot table, holding the state captured when it was
\* taken; when the snapshot cannot be taken the call ends with the plan
\* failed at step 0, no step run and no live file or catalog row changed.
C17_SnapshotBeforeSteps ==
  [][\A t \in Threads :
       /\ (At(t, "execute_recovery_plan", "step") /\ stack'[t] # stack[t])
          => /\ Top(t).pre # {}
             /\ Top(t).pre \subseteq DOMAIN snapshots
       /\ (At(t, "execute_recovery_plan", "pre_snapshot")
             /\ stack'[t] # stack[t])
          => IF Ends(t, "execute_recovery_plan")
             THEN /\ ret'[t].kind = "ok"
                  /\ ret'[t].val = FALSE
                  /\ plans'[Top(t).id].status = "failed"
                  /\ plans'[Top(t).id].current_step = 0
                  /\ fs' = fs
                  /\ backups' = backups
                  /\ restores' = restores
                  /\ archives' = archives
             ELSE /\ SnapshotId \in DOMAIN snapshots' \ DOMAIN snapshots
                  /\ snapshots'[SnapshotId].constitution_snapshot
                       = CaptureConstitutionState
                  /\ snapshots'[SnapshotId].configuration_snapshot
                       = CaptureConfigurationState]_vars

\* one execution has ended because its pre-recovery snapshot failed, and an
\* execution is now at its steps with its snapshot taken
C17_Witness ==
  \E t \in Threads : \E p \in DOMAIN plans :
    /\ At(t, "execute_recovery_plan", "wait")
    /\ Top(t).pre # {}
    /\ Top(t).pre \subseteq DOMAIN snapshots
    /\ Count("execute_recovery_plan") = 2
    /\ plans[p].error_message = "Error"

\* C18: rollback_to_snapshot changes a constitution or configuration file
\* only with its snapshot of the current state in the snapshot table; for an
\* unknown target, or when that snapshot cannot be recorded, it returns false
\* and changes no file.
C18_SnapshotBeforeRollback ==
  [][\A t \in Threads :
       /\ (/\ ~Idle(t)
           /\ Top(t).op = "rollback_to_snapshot"
           /\ fs' # fs)
          => /\ Top(t).pre # {}
             /\ Top(t).pre \subseteq DOMAIN snapshots
       /\ (/\ At(t, "rollback_to_snapshot", "load")
           /\ Top(t).id \notin DOMAIN snapshots
           /\ stack'[t] # stack[t])
          => /\ Ends(t, "rollback_to_snapshot")
             /\ ret'[t].val = FALSE
             /\ fs' = fs
       /\ (At(t, "rollback_to_snapshot", "pre_snapshot")
             /\ stack'[t] # stack[t])
          => IF Ends(t, "rollback_to_snapshot")
             THEN /\ ret'[t].val = FALSE
                  /\ fs' = fs
             ELSE /\ SnapshotId \in DOMAIN snapshots' \ DOMAIN snapshots
                  /\ snapshots'[SnapshotId].constitution_snapshot
                       = CaptureConstitutionState
                  /\ snapshots'[SnapshotId].configuration_snapshot
                       = CaptureConfigurationState
                  /\ fs' = fs]_vars

\* a rollback has written the constitution file back, with its snapshot of
\* the state before in the table, after an earlier rollback returned false
C18_Witness ==
  \E t \in Threads :
    /\ At(t, "rollback_to_snapshot", "configuration")
    /\ Top(t).pre # {}
    /\ Top(t).pre \subseteq DOMAIN snapshots
    /\ Top(t).pre # {Top(t).id}
    /\ fs[ConstitutionFile] = JsonDump(Top(t).snapshot.constitution_snapshot)
    /\ ret[t].op = "rollback_to_snapshot"
    /\ ret[t].val = FALSE

\* C19: when rollback_to_snapshot(s) returns true, the constitution and the
\* configuration files are in the state captured in s: the same documents
\* and texts, and no configuration file that s did not capture.
C19_RollbackRoundTrip ==
  [][\A t \in Threads :
       (Ends(t, "rollback_to_snapshot") /\ ret'[t].val = TRUE)
       => /\ CaptureConstitutionState' = Top(t).snapshot.constitution_snapshot
          /\ CaptureConfigurationState'
               = Top(t).snapshot.configuration_snapshot]_vars

\* the risk level of a plan as the additive score gives it: the gap in
\* seconds between now and the target, and the plan's components
ScoreOf(gap, components) ==
  (IF gap > 30 * SecondsPerDay THEN 2
   ELSE IF gap > 7 * SecondsPerDay THEN 1 ELSE 0)
  + (IF "constitution" \in components THEN 2 ELSE 0)
  + (IF "configuration" \in components THEN 1 ELSE 0)

LevelOf(score) ==
  IF score >= 4 THEN "high" ELSE IF score >= 2 THEN "medium" ELSE "low"

\* C20: the risk_level of a new plan is low, medium or high for a score
\* below 2, of 2 or 3, of 4 or more, the score being +2 for a gap between
\* now and the target above 30 days, else +1 for a gap above 7 days, +2 for
\* the constitution and +1 for the configuration among the components.
C20_RiskLevel ==
  [][\A p \in DOMAIN plans' \ DOMAIN plans :
       plans'[p].risk_level
         = LevelOf(ScoreOf(clock - plans'[p].target_timestamp,
                           plans'[p].affected_components))]_vars

\* C21: the data_loss_risk of a new plan is true exactly when the gap between
\* now and the target is longer than one day (24 hours): true for 36 hours,
\* false for 24 hours or less and for a target in the future.
C21_DataLossRisk ==
  [][\A p \in DOMAIN plans' \ DOMAIN plans :
       plans'[p].data_loss_risk
         = (clock - plans'[p].target_timestamp > SecondsPerDay)]_vars

\* the workers that are alive
AliveWorkers == {w \in Workers : Alive(w)}

\* the statistics report the flag with the value v
Reports(v) ==
  /\ "scheduler_running" \in DOMAIN GetBackupStatistics
  /\ GetBackupStatistics.scheduler_running = v

\* C22: whatever start and stop calls were made, at most one worker thread is
\* alive while the scheduler is running, and each of the three jobs is
\* registered at most once; a start while running and a stop while stopped
\* change nothing of the scheduler; the statistics report scheduler_running
\* true after a start and false after a stop.
C22_StartStopIdempotent ==
  [][/\ scheduler_running' => Cardinality(AliveWorkers') <= 1
     /\ \A n \in Range(JobNames) :
          Cardinality({i \in DOMAIN jobs' : jobs'[i].name = n}) <= 1
     /\ \A t \in Threads :
          /\ (At(t, "start_automated_backups", "begin") /\ scheduler_running
                /\ stack'[t] # stack[t])
             => sched' = sched /\ AliveWorkers' = AliveWorkers
          /\ (~Idle(t) /\ Top(t).op = "stop_automated_backups"
                /\ ~scheduler_running /\ jobs = << >>)
             => sched' = sched
          /\ Ends(t, "start_automated_backups") => Reports(TRUE)'
          /\ Ends(t, "stop_automated_backups") => Reports(FALSE)']_vars

\* a registered job of the kind is due
DueJob(n) == \E i \in DOMAIN jobs : jobs[i].name = n /\ clock >= jobs[i].next_run

\* C23: a job that failed leaves the worker in its loop, going on with the
\* remaining due jobs; a worker thread ends only at the loop's test, when
\* the scheduler was stopped; and every job that is due is run (or the
\* scheduler stopped).
C23_JobsIsolated ==
  /\ [][\A w \in Workers :
          /\ (At(w, "run_scheduler", "wait") /\ stack'[w] # stack[w])
             => /\ At(w, "run_scheduler", "run")'
                /\ Top(w)'.todo = Tail(Top(w).todo)
          /\ (Alive(w) /\ ~Alive(w)')
             => At(w, "run_scheduler", "check") /\ ~scheduler_running]_vars
  /\ \A n \in Range(JobNames) : DueJob(n) ~> ~DueJob(n)

\* the scheduler is running with its worker alive; a create_backup of a
\* scheduled job has raised, and a later scheduled create_backup has returned
C23_Witness ==
  /\ scheduler_running
  /\ \E w \in Workers : At(w, "run_scheduler", "sleep")
  /\ \E a \in 1..serial, b \in returned :
       /\ a < b
       /\ a \notin returned
       /\ \A w \in Workers : \A i \in 1..Len(stack[w]) :
            stack[w][i].op = "create_backup" => stack[w][i].id # a

\* C24: when a full-scope restore returns, the backed-up roots hold exactly
\* the files of the backup's manifest: a file under a root that is not in
\* the manifest (created after the backup was taken) is no longer on disk.
C24_RestoreRemovesNewFiles ==
  [][\A t \in Threads :
       (/\ Ends(t, "restore_from_backup")
        /\ ret'[t].kind = "ok"
        /\ Top(t).scope = FullScope)
       => \A p \in AllPaths :
            (CategoryOf(p) # "none" /\ p \notin Range(Top(t).manifest))
              => p \notin DOMAIN fs']_vars

\* C25: no step of the execution of a plan changes a live file of one of the
\* four restorable domains that is not among the plan's components.
C25_PlanScope ==
  [][\A t \in Threads :
       (/\ ~Idle(t)
        /\ stack[t][1].op = "execute_recovery_plan"
        /\ stack[t][1].id \in DOMAIN plans)
       => \A p \in AllPaths :
            (/\ CategoryOf(p) \in ScopeKeys
             /\ CategoryOf(p) \notin plans[stack[t][1].id].affected_components)
            => /\ (p \in DOMAIN fs) = (p \in DOMAIN fs')
               /\ p \in DOMAIN fs => fs'[p] = fs[p]]_vars

\* the steps of the execution at the bottom of thread t's stack that have
\* finished with success: the step taken last does not count while its call
\* is in progress or after it raised
CompletedSteps(t) ==
  LET fr == stack[t][1] IN
  IF Len(stack[t]) > 1 \/ (fr.pc = "wait" /\ ret[t].kind = "raise")
  THEN fr.plan.current_step - 1
  ELSE fr.plan.current_step

\* C26: while execute_recovery_plan runs its steps, the plan's row holds as
\* current_step the number of steps that have finished with success and as
\* progress 100 * current_step / number of steps; a failed plan has a
\* progress below 100.
C26_ProgressAfterStep ==
  /\ \A t \in Threads :
       (/\ ~Idle(t)
        /\ stack[t][1].op = "execute_recovery_plan"
        /\ stack[t][1].pc \in {"step", "wait"})
       => LET row == plans[stack[t][1].id] IN
          /\ row.current_step = CompletedSteps(t)
          /\ row.progress_percent
               = (100 * row.current_step) \div Len(row.steps)
  /\ \A p \in DOMAIN plans :
       plans[p].status = "failed" => plans[p].progress_percent < 100

\* C27: execute_recovery_plan of a plan id without a row returns false to the
\* caller (the not-found failure) and raises nothing, with no snapshot taken,
\* no step run, and no plan, snapshot, backup or live file changed.
C27_ExecuteNotFound ==
  [][\A t \in Threads :
       (/\ At(t, "execute_recovery_plan", "load")
        /\ Top(t).id \notin DOMAIN plans
        /\ stack'[t] # stack[t])
       => /\ Ends(t, "execute_recovery_plan")
          /\ ret'[t].kind = "ok"
          /\ ret'[t].val = FALSE
          /\ plans' = plans
          /\ snapshots' = snapshots
          /\ backups' = backups
          /\ archives' = archives
          /\ fs' = fs]_vars

\* C28: however a delete_backup and a restore_from_backup of two threads
\* interleave, once delete_backup(id) has returned true there is no archive
\* and no backup row of id and no restore row of id, then or later; and a
\* restore id that restore_from_backup returns names a restore row with
\* status completed.
C28_RestoreRowsOfDeletedBackup ==
  /\ [](\A t \in DOMAIN ret :
         (ret[t].op = "delete_backup" /\ ret[t].kind = "ok"
            /\ ret[t].val = TRUE)
         => /\ ret[t].arg \notin DOMAIN archives
            /\ ret[t].arg \notin DOMAIN backups
            /\ \A r \in DOMAIN restores : restores[r].backup_id # ret[t].arg)
  /\ [][\A t \in DOMAIN stack :
          (Ends(t, "restore_from_backup") /\ ret'[t].kind = "ok")
          => /\ ret'[t].val \in DOMAIN restores'
             /\ restores'[ret'[t].val].status = "completed"]_vars

\* C29: a restore, a system snapshot or a recovery plan made in the clock
\* second of an earlier record of its kind gets an id of its own, so that
\* its row is inserted and not rejected as a duplicate; and a restore that
\* raises changes no restore row but the one it inserted.
C29_UniqueIds ==
  [][\A t \in Threads :
       /\ (/\ At(t, "restore_from_backup", "begin")
           /\ GetBackupMetadata(Top(t).backup_id)
           /\ stack'[t] # stack[t])
          => /\ ~Ends(t, "restore_from_backup")
             /\ Cardinality(DOMAIN restores') = Cardinality(DOMAIN restores) + 1
             /\ \A r \in DOMAIN restores : restores'[r] = restores[r]
       /\ (Ends(t, "restore_from_backup") /\ ret'[t].kind = "raise")
          => \A r \in DOMAIN restores :
               (Top(t).pc = "begin" \/ r # Top(t).id)
                 => r \in DOMAIN restores' /\ restores'[r] = restores[r]
       /\ (/\ ret'[t] # ret[t]
           /\ ret'[t].op = "create_system_snapshot"
           /\ faults' = faults)
          => /\ ret'[t].kind = "ok"
             /\ Cardinality(DOMAIN snapshots')
                  = Cardinality(DOMAIN snapshots) + 1
       /\ (/\ ret'[t] # ret[t]
           /\ ret'[t].op = "create_recovery_plan"
           /\ SuitableBackups(ret'[t].arg) # {})
          => /\ ret'[t].kind = "ok"
             /\ Cardinality(DOMAIN plans') = Cardinality(DOMAIN plans) + 1]_vars

\* a delete_backup of the id is in progress on some thread
Deleting(id) ==
  \E t \in DOMAIN stack :
    ~Idle(t) /\ Top(t).op = "delete_backup" /\ Top(t).id = id

\* C30: no step changes a field of an existing backup row, and none changes
\* or removes the archive file of a catalogued backup or removes its row,
\* but a step of a delete_backup of that backup; every backup row has
\* verification_status "verified" as long as it exists, also after
\* verify_backup has returned false for it.
C30_BackupRowsImmutable ==
  /\ [][\A id \in DOMAIN backups :
          /\ id \in DOMAIN backups' => backups'[id] = backups[id]
          /\ id \notin DOMAIN backups' => Deleting(id)
          /\ id \in DOMAIN archives
               => \/ id \in DOMAIN archives' /\ archives'[id] = archives[id]
                  \/ Deleting(id)]_vars
  /\ [](\A id \in DOMAIN backups :
          backups[id].verification_status = "verified")

\* verify_backup has returned false for a backup that is in the catalog,
\* after the restore step of a plan completed its restore from a backup and
\* a rollback was called
C30_Witness ==
  \E t \in Threads :
    /\ ret[t].op = "verify_backup"
    /\ ret[t].kind = "ok"
    /\ ret[t].val = FALSE
    /\ ret[t].arg \in DOMAIN backups
    /\ \E r \in DOMAIN restores : restores[r].status = "completed"
    /\ \E p \in DOMAIN plans : plans[p].current_step >= 3
    /\ Count("rollback_to_snapshot") > 0

====
